---------------------------- MODULE Spec2Model ----------------------------
(***************************************************************************)
(* DebateFlow: the data model (models.py), the prompt assembler            *)
(* (prompts.py), the turn sequencer (generator.py), voice pairing          *)
(* (voice.py) and the agreement engine (agreement.py).                     *)
(*                                                                         *)
(* Strings are modelled as sequences of tokens: a fixed literal of the     *)
(* source is one token, a free text (resolution, speech) is a sequence of  *)
(* opaque tokens, concatenation is \o.  The em dash of the source is       *)
(* written "--".  An absent value (Python None) is the token None.         *)
(***************************************************************************)
EXTENDS Integers, Sequences, FiniteSets, TLC

VARIABLES
    doc,        \* models: the JSON document last handed to Debate.model_validate
    obj,        \* models: what validation made of it
    stats,      \* compile: result of compute_stats over the accepted debate
    call,       \* prompts: the call of a prompt builder under test
    ret,        \* prompts: its return value
    pc,         \* generator: position in generate_batch / generate_single_debate
    batch,      \* generator: arguments of the run (n, debates done so far)
    args,       \* generator: arguments of the current generate_single_debate
    metadata,   \* generator: the DebateMetadata built at entry
    turns,      \* generator: the accumulated list of Turn
    inflight,   \* generator: the completion call that has not returned yet
    calls,      \* generator: the completion calls of the current debate, in order
    result,     \* generator: what generate_single_debate returned
    files,      \* generator: output_dir, file name -> content
    written,    \* generator: the list of paths generate_batch returns
    env,        \* voice: the speech-provider keys set in os.environ
    picks,      \* voice: the pick_voice_pair calls made so far, in order
    jsonl,      \* compile: the output file of compile_to_jsonl (<<>>: no file)
    audio,      \* voice, server: the audio cache, path -> bytes
    synth,      \* voice, server: the synthesize_turn calls made so far, in order
    response,   \* server, voice: what the last handler or call returned
    annotations_dir,  \* server, telegram: output/annotations, file name -> content
    user_data,  \* telegram: context.user_data of the one user
    conv        \* telegram: state of the ConversationHandler for that user

modelVars == <<doc, obj, stats>>
promptVars == <<call, ret>>
genVars == <<pc, batch, args, metadata, turns, inflight, calls, result, files, written>>
voiceVars == <<env, picks>>
serviceVars == <<jsonl, audio, synth, response, annotations_dir, user_data, conv>>
vars == <<doc, obj, stats, call, ret, pc, batch, args, metadata, turns, inflight,
          calls, result, files, written, env, picks, jsonl, audio, synth, response,
          annotations_dir, user_data, conv>>

(***************************************************************************)
(* Bounds                                                                  *)
(***************************************************************************)
MaxTurns == 5      \* longest turn list of a decoded document
MaxHistory == 2    \* longest previous_turns handed to build_user_prompt
MaxBatch == 2      \* largest n of generate_batch
MaxPicks == 3      \* most pick_voice_pair calls in one run
MaxPool == 6       \* largest voice pool handed to the pair selection
MaxLabels == 4     \* longest label list handed to _cohens_kappa
MaxAnnotations == 5  \* longest annotation list handed to compute_agreement
MaxScores == 6     \* longest dimension_scores list of an annotation document

None == "None"

(***************************************************************************)
(* models.py                                                               *)
(***************************************************************************)
Side == {"aff", "neg"}

TurnRole == {"opening", "response", "rebuttal", "closing"}

WeaknessType == {"weak_evidence", "argument_dropping", "logical_gaps", "burden_of_proof"}

Turn(speaker, role, text) == [speaker |-> speaker, role |-> role, text |-> text]

ValidationError(loc, msg) == [loc |-> loc, msg |-> msg]

\* Optional enum fields: a value outside the enum (and not null) is an error.
ConstraintInfo_errors(c) ==
    (IF c.type \in WeaknessType \cup {None} THEN {}
     ELSE {ValidationError("metadata.constraint.type", <<"Input should be a WeaknessType">>)})
    \cup
    (IF c.target_side \in Side \cup {None} THEN {}
     ELSE {ValidationError("metadata.constraint.target_side", <<"Input should be a Side">>)})

\* DebateMetadata declares no validator: the nested constraint is validated,
\* is_control is any bool.
DebateMetadata_errors(m) == ConstraintInfo_errors(m.constraint)

\* Faulty variant: only too short a list is refused.
exactly_four_turns_atleast(v) ==
    IF Len(v) < 4
    THEN {ValidationError("turns", <<"Debate must have exactly 4 turns, got ", Len(v)>>)}
    ELSE {}

exactly_four_turns(v) ==
    IF Len(v) # 4
    THEN {ValidationError("turns", <<"Debate must have exactly 4 turns, got ", Len(v)>>)}
    ELSE {}

\* Debate(**d) / Debate.model_validate_json: every field is validated, the
\* errors of all fields are collected, the object exists iff there is none.
Debate_model_validate(d) ==
    LET errors == DebateMetadata_errors(d.metadata) \cup exactly_four_turns(d.turns)
    IN  [status |-> IF errors = {} THEN "accepted" ELSE "rejected",
         value  |-> IF errors = {} THEN <<d>> ELSE <<>>,
         errors |-> errors]

(***************************************************************************)
(* compile.py                                                              *)
(***************************************************************************)
Inc(counter, key) ==
    IF key \in DOMAIN counter THEN [counter EXCEPT ![key] = @ + 1]
    ELSE counter @@ (key :> 1)

EmptyCounter == [k \in {} |-> 0]

\* One iteration of the loop of compute_stats; a failed assert raises.
compute_stats_step(acc, d) ==
    IF acc.raised # None THEN acc
    ELSE LET a1 == [acc EXCEPT !.category_counts = Inc(@, d.metadata.category)]
         IN  IF d.metadata.is_control
             THEN [a1 EXCEPT !.control = @ + 1,
                             !.weakness_counts = Inc(@, "control")]
             ELSE IF d.metadata.constraint.type = None
                  THEN [a1 EXCEPT !.raised = "AssertionError: constraint.type is not None"]
             ELSE IF d.metadata.constraint.target_side = None
                  THEN [a1 EXCEPT !.raised = "AssertionError: constraint.target_side is not None"]
             ELSE [a1 EXCEPT !.weakness_counts = Inc(@, d.metadata.constraint.type),
                             !.side_counts = Inc(@, d.metadata.constraint.target_side)]

RECURSIVE compute_stats_loop(_, _, _)
compute_stats_loop(debates, j, acc) ==
    IF j > Len(debates) THEN acc
    ELSE compute_stats_loop(debates, j + 1, compute_stats_step(acc, debates[j]))

compute_stats(debates) ==
    LET acc == compute_stats_loop(debates, 1,
                   [raised |-> None, control |-> 0, weakness_counts |-> EmptyCounter,
                    category_counts |-> EmptyCounter, side_counts |-> EmptyCounter])
    IN  [status |-> IF acc.raised = None THEN "returned" ELSE "raised",
         raised |-> acc.raised,
         total |-> Len(debates),
         control |-> acc.control,
         constrained |-> Len(debates) - acc.control,
         weakness_counts |-> acc.weakness_counts,
         category_counts |-> acc.category_counts,
         side_counts |-> acc.side_counts]

(***************************************************************************)
(* Decoding debate documents: Debate.model_validate_json, then show_stats  *)
(***************************************************************************)
\* Faulty variant: the sides swapped.
TURN_SEQUENCE_neg_first == << <<"neg", "opening">>, <<"aff", "response">>,
                             <<"neg", "rebuttal">>, <<"aff", "closing">> >>

TURN_SEQUENCE == << <<"aff", "opening">>, <<"neg", "response">>,
                    <<"aff", "rebuttal">>, <<"neg", "closing">> >>

\* Every list of at most MaxTurns well-formed turns (any speaker, any role).
TurnLists ==
    UNION {[1..len -> {Turn(s, r, <<"speech">>) : s \in Side, r \in TurnRole}] :
           len \in 0..MaxTurns}

PlanTurns == [k \in 1..4 |-> Turn(TURN_SEQUENCE[k][1], TURN_SEQUENCE[k][2], <<"speech">>)]

\* Every constraint a document can spell: any weakness name of either
\* prompts table or null, any side or null.
RawConstraints ==
    [type : WeaknessType \cup {"side_concession", None}, target_side : Side \cup {None}]

Meta(c, ic) ==
    [debate_id |-> "d1", resolution |-> <<"Ban cars">>, category |-> "policy",
     constraint |-> c, is_control |-> ic]

\* The documents decoded: every turn list under a control metadata, and
\* every metadata (constraint, control flag) over the planned turn list.
Docs ==
    {[metadata |-> Meta([type |-> None, target_side |-> None], TRUE), turns |-> t] :
        t \in TurnLists}
    \cup
    {[metadata |-> Meta(c, ic), turns |-> PlanTurns] :
        c \in RawConstraints, ic \in BOOLEAN}

NoObj == [status |-> "none", value |-> <<>>, errors |-> {}]
NoStats == [status |-> "none"]
NoCall == [fn |-> "none"]

ModelsIdle == doc = None /\ obj = NoObj /\ stats = NoStats
PromptsIdle == call = NoCall /\ ret = <<>>
NoBatch == [active |-> FALSE]
NoArgs == [active |-> FALSE]
NoMetadata == [active |-> FALSE]
NoFiles == [f \in {} |-> None]

\* No generate_batch / generate_single_debate call is in progress.
GenLocalsIdle ==
    /\ args = NoArgs /\ metadata = NoMetadata /\ turns = <<>>
    /\ inflight = <<>> /\ calls = <<>> /\ result = <<>>
GenIdle ==
    /\ pc = "idle" /\ batch = NoBatch /\ GenLocalsIdle
    /\ files = NoFiles /\ written = <<>>
\* No speech-provider key is set and pick_voice_pair has not been called.
VoiceIdle == env = {} /\ picks = <<>>
NoResponse == [handler |-> "none"]
NoUserData == [k \in {} |-> None]
\* No file compiled, cached, or annotated; no request served; the bot's
\* user has not written yet.
ServiceIdle ==
    /\ jsonl = <<>> /\ audio = NoFiles /\ synth = <<>> /\ response = NoResponse
    /\ annotations_dir = NoFiles /\ user_data = NoUserData /\ conv = "END"

Decode ==
    /\ obj.status = "none"
    /\ \E d \in Docs :
         /\ doc' = d
         /\ obj' = Debate_model_validate(d)
    /\ UNCHANGED <<stats, promptVars, genVars, voiceVars, serviceVars>>

ShowStats ==
    /\ obj.status = "accepted"
    /\ stats.status = "none"
    /\ stats' = compute_stats(obj.value)
    /\ UNCHANGED <<doc, obj, promptVars, genVars, voiceVars, serviceVars>>

InitModels == ModelsIdle /\ PromptsIdle /\ GenIdle /\ VoiceIdle /\ ServiceIdle
NextModels == Decode \/ ShowStats
SpecModels == InitModels /\ [][NextModels]_vars

\* The order of turns the claims speak of.
FixedOrder == << <<"aff", "opening">>, <<"neg", "response">>,
                 <<"aff", "rebuttal">>, <<"neg", "closing">> >>

Pairs(ts) == [k \in 1..Len(ts) |-> <<ts[k].speaker, ts[k].role>>]

\* C1: a decoded document is accepted as a Debate only if the (speaker, role)
\* sequence of its turns is exactly (AFF, opening), (NEG, response),
\* (AFF, rebuttal), (NEG, closing).
C1_RoleSequenceEnforced ==
    obj.status = "accepted" => Pairs(doc.turns) = FixedOrder

\* C2: a document whose turn count N is not 4 is rejected, no object is
\* built, and the error names the turns invariant and the count N; every
\* Debate object that exists has four turns.
C2_WrongCountRejected ==
    obj.status # "none" =>
        /\ Len(doc.turns) # 4 =>
              /\ obj.status = "rejected"
              /\ obj.value = <<>>
              /\ \E e \in obj.errors :
                    /\ e.loc = "turns"
                    /\ e.msg[1] = "Debate must have exactly 4 turns, got "
                    /\ e.msg[Len(e.msg)] = Len(doc.turns)
        /\ \A j \in 1..Len(obj.value) : Len(obj.value[j].turns) = 4

C2_Witness == obj.status = "rejected" /\ Len(doc.turns) = 5

\* C3: every ConstraintInfo that is accepted has type absent iff
\* target_side absent.
C3_ConstraintFieldsTogether ==
    obj.status = "accepted" =>
        (doc.metadata.constraint.type = None <=> doc.metadata.constraint.target_side = None)

\* C4: every accepted Debate has is_control true iff constraint.type is
\* absent, and compute_stats over accepted debates never fails an assertion.
C4_ControlFlagConsistent ==
    /\ obj.status = "accepted" =>
          (doc.metadata.is_control <=> doc.metadata.constraint.type = None)
    /\ stats.status # "raised"

(***************************************************************************)
(* debateflow/prompts.py                                                   *)
(***************************************************************************)
\* The weakness kinds prompts.py names (its WEAKNESS_TEMPLATES keys).
PromptWeaknessType == WeaknessType \cup {"side_concession"}

BASE_SYSTEM_PROMPTS ==
    [aff |-> <<"You are the AFFIRMATIVE debater. You argue IN FAVOR of the resolution ... Each speech should be 200-400 words.">>,
     neg |-> <<"You are the NEGATIVE debater. You argue AGAINST the resolution ... Each speech should be 200-400 words.">>]

FORMAT_FIELD == "{side_name}"

TURN_INSTRUCTIONS ==
    [opening  |-> <<"This is your opening constructive speech as the ", FORMAT_FIELD,
                    ". Present your strongest arguments ... be evaluated.">>,
     response |-> <<"This is your response speech as the ", FORMAT_FIELD,
                    ". You must directly engage ... the opponent's case fails.">>,
     rebuttal |-> <<"This is your rebuttal speech as the ", FORMAT_FIELD,
                    ". Defend your arguments ... reasoning or evidence.">>,
     closing  |-> <<"This is your closing speech as the ", FORMAT_FIELD,
                    ". Summarize the key clashes in the debate and explain why the ",
                    FORMAT_FIELD,
                    " has won each one. Weigh ... clear reasons to vote for the ",
                    FORMAT_FIELD, ".">>]

CONSTRAINT_MARKER == "IMPORTANT CONSTRAINT: "

WEAKNESS_TEMPLATES ==
    [weak_evidence     |-> <<CONSTRAINT_MARKER, "In this speech, rely primarily on anecdotal evidence ...">>,
     argument_dropping |-> <<CONSTRAINT_MARKER, "In this speech, ignore one or two of your opponent's key arguments ...">>,
     logical_gaps      |-> <<CONSTRAINT_MARKER, "In this speech, include one or two logical fallacies ...">>,
     burden_of_proof   |-> <<CONSTRAINT_MARKER, "In this speech, make key assertions without adequate support ...">>,
     side_concession   |-> <<CONSTRAINT_MARKER, "In this speech, gradually drift toward agreeing with your opponent's position ...">>]

SEP == "\n\n"

\* Faulty variant: the target side is not looked at.
build_system_prompt_any_side(side, weakness, target_side, role) ==
    LET prompt == BASE_SYSTEM_PROMPTS[side]
    IN  IF weakness # None
        THEN IF weakness \in {"argument_dropping", "side_concession"} /\ role = "opening"
             THEN prompt
             ELSE prompt \o <<SEP>> \o WEAKNESS_TEMPLATES[weakness]
        ELSE prompt

build_system_prompt(side, weakness, target_side, role) ==
    LET prompt == BASE_SYSTEM_PROMPTS[side]
    IN  IF weakness # None /\ target_side = side
        THEN IF weakness \in {"argument_dropping", "side_concession"} /\ role = "opening"
             THEN prompt
             ELSE prompt \o <<SEP>> \o WEAKNESS_TEMPLATES[weakness]
        ELSE prompt

SIDE_LABELS ==
    [aff |-> <<"AFFIRMATIVE", "IN FAVOR OF">>,
     neg |-> <<"NEGATIVE", "AGAINST">>]

\* str.upper() on the speaker values that occur.
upper == [aff |-> "AFF", neg |-> "NEG"]

\* str.format(side_name=...) on a template.
format(template, side_name) ==
    [k \in 1..Len(template) |->
        IF template[k] = FORMAT_FIELD THEN side_name ELSE template[k]]

\* sep.join(parts)
RECURSIVE join(_, _)
join(sep, parts) ==
    IF parts = <<>> THEN <<>>
    ELSE IF Len(parts) = 1 THEN parts[1]
    ELSE parts[1] \o <<sep>> \o join(sep, Tail(parts))

HISTORY_START == "\n--- Debate so far ---"
HISTORY_END == "--- End of debate so far ---\n"

\* label = f"[{turn['speaker'].upper()} -- {turn['role']}]"; f"{label}\n{turn['text']}"
HistoryEntry(turn) ==
    <<"[", upper[turn.speaker], " -- ", turn.role, "]", "\n">> \o turn.text

\* Faulty variant: the markers are emitted for an empty history too.
HistoryParts_always(previous_turns) ==
    << <<HISTORY_START>> >>
    \o [k \in 1..Len(previous_turns) |-> HistoryEntry(previous_turns[k])]
    \o << <<HISTORY_END>> >>

\* The parts the `if previous_turns:` block appends.
HistoryParts(previous_turns) ==
    IF previous_turns # <<>>
    THEN << <<HISTORY_START>> >>
         \o [k \in 1..Len(previous_turns) |-> HistoryEntry(previous_turns[k])]
         \o << <<HISTORY_END>> >>
    ELSE <<>>

\* Faulty variant: the task instruction is placed second.
build_user_prompt_task_first(resolution, role, previous_turns, side) ==
    LET side_name == SIDE_LABELS[side][1]
        stance == SIDE_LABELS[side][2]
        parts == << <<"Resolution: ">> \o resolution >>
                 \o << format(TURN_INSTRUCTIONS[role], side_name) >>
                 \o << <<"You are the ", side_name, ". You argue ", stance, " the resolution.">> >>
                 \o HistoryParts(previous_turns)
    IN  join(SEP, parts)

build_user_prompt(resolution, role, previous_turns, side) ==
    LET side_name == SIDE_LABELS[side][1]
        stance == SIDE_LABELS[side][2]
        parts == << <<"Resolution: ">> \o resolution >>
                 \o << <<"You are the ", side_name, ". You argue ", stance, " the resolution.">> >>
                 \o HistoryParts(previous_turns)
                 \o << format(TURN_INSTRUCTIONS[role], side_name) >>
    IN  join(SEP, parts)

(***************************************************************************)
(* Calls of the prompt builders over bounded inputs                        *)
(***************************************************************************)
Resolutions == {<<"Ban cars">>, <<"This house would", "tax sugar">>}
Texts == {<<"Cars are bad.">>, <<"Cars", "are fine.">>}

SystemPromptCalls ==
    [fn : {"build_system_prompt"}, side : Side,
     weakness : PromptWeaknessType \cup {None}, target_side : Side \cup {None},
     role : TurnRole]

PreviousTurnLists ==
    UNION {[1..len -> [speaker : Side, role : TurnRole, text : Texts]] :
           len \in 0..MaxHistory}

UserPromptCalls ==
    [fn : {"build_user_prompt"}, resolution : Resolutions, role : TurnRole,
     previous_turns : PreviousTurnLists, side : Side]

BuildSystemPrompt ==
    /\ call.fn = "build_system_prompt"
    /\ ret = <<>>
    /\ ret' = build_system_prompt(call.side, call.weakness, call.target_side, call.role)
    /\ UNCHANGED <<call, modelVars, genVars, voiceVars, serviceVars>>

BuildUserPrompt ==
    /\ call.fn = "build_user_prompt"
    /\ ret = <<>>
    /\ ret' = build_user_prompt(call.resolution, call.role, call.previous_turns, call.side)
    /\ UNCHANGED <<call, modelVars, genVars, voiceVars, serviceVars>>

InitPrompts ==
    /\ call \in SystemPromptCalls \cup UserPromptCalls
    /\ ret = <<>>
    /\ ModelsIdle /\ GenIdle /\ VoiceIdle /\ ServiceIdle
NextPrompts == BuildSystemPrompt \/ BuildUserPrompt
SpecPrompts == InitPrompts /\ [][NextPrompts]_vars

IsPrefix(p, s) == Len(p) <= Len(s) /\ SubSeq(s, 1, Len(p)) = p
IsSuffix(p, s) == Len(p) <= Len(s) /\ SubSeq(s, Len(s) - Len(p) + 1, Len(s)) = p
Contains(s, p) == \E k \in 0..(Len(s) - Len(p)) : SubSeq(s, k + 1, k + Len(p)) = p
Occurrences(s, tok) == {k \in 1..Len(s) : s[k] = tok}

RECURSIVE ExpectedEntries(_)
ExpectedEntries(prev) ==
    IF prev = <<>> THEN <<>>
    ELSE <<"[", (IF prev[1].speaker = "aff" THEN "AFF" ELSE "NEG"), " -- ",
           prev[1].role, "]", "\n">> \o prev[1].text \o <<SEP>>
         \o ExpectedEntries(Tail(prev))

\* C6: the user prompt has a history block iff previous_turns is non-empty:
\* with an empty list neither marker appears; otherwise each marker appears
\* once, start before end, and between them stand exactly the prior turns.
C6_HistoryBlock ==
    (call.fn = "build_user_prompt" /\ ret # <<>>) =>
        LET starts == Occurrences(ret, HISTORY_START)
            ends == Occurrences(ret, HISTORY_END)
        IN  IF call.previous_turns = <<>>
            THEN starts = {} /\ ends = {}
            ELSE /\ Cardinality(starts) = 1 /\ Cardinality(ends) = 1
                 /\ \E s \in starts, e \in ends :
                      /\ s < e
                      /\ SubSeq(ret, s + 1, e - 1)
                            = <<SEP>> \o ExpectedEntries(call.previous_turns)

C6_Witness ==
    /\ call.fn = "build_user_prompt" /\ ret # <<>>
    /\ Len(call.previous_turns) = 2
    /\ call.previous_turns[1].text # call.previous_turns[2].text
    /\ Occurrences(ret, HISTORY_START) # {}

\* C7: the user prompt is, in this order: the resolution statement, the
\* stance reminder of the side, the history block when there is one, and
\* last the task instruction of the role naming the side.
C7_PartOrder ==
    (call.fn = "build_user_prompt" /\ ret # <<>>) =>
        LET name == IF call.side = "aff" THEN "AFFIRMATIVE" ELSE "NEGATIVE"
            stance == IF call.side = "aff" THEN "IN FAVOR OF" ELSE "AGAINST"
            head == <<"Resolution: ">> \o call.resolution \o <<SEP>>
                    \o <<"You are the ", name, ". You argue ", stance, " the resolution.">>
            task == format(TURN_INSTRUCTIONS[call.role], name)
            starts == Occurrences(ret, HISTORY_START)
            ends == Occurrences(ret, HISTORY_END)
        IN  /\ IsPrefix(head \o <<SEP>>, ret)
            /\ IsSuffix(<<SEP>> \o task, ret)
            /\ Occurrences(task, name) # {}
            /\ \A s \in starts : s = Len(head) + 2
            /\ \A e \in ends : e = Len(ret) - Len(task) - 1
            /\ starts = {} => Len(ret) = Len(head) + 1 + Len(task)

C7_Witness ==
    /\ call.fn = "build_user_prompt" /\ ret # <<>>
    /\ call.side = "neg" /\ call.role = "closing"
    /\ call.previous_turns # <<>>

(***************************************************************************)
(* prompts.py (the module generator.py imports)                            *)
(***************************************************************************)
legacy_BASE_SYSTEM_PROMPTS ==
    [aff |-> <<"You are a competitive debater arguing in FAVOR of the resolution. ... Each speech should be 200-400 words.">>,
     neg |-> <<"You are a competitive debater arguing AGAINST the resolution. ... Each speech should be 200-400 words.">>]

legacy_TURN_INSTRUCTIONS ==
    [opening  |-> <<"This is your opening constructive speech. Present your strongest arguments ... be evaluated.">>,
     response |-> <<"This is your response speech. You must directly engage ... the opponent's case fails.">>,
     rebuttal |-> <<"This is your rebuttal speech. Defend your arguments ... reasoning or evidence.">>,
     closing  |-> <<"This is your closing speech. Summarize the key clashes ... reasons to vote for your side.">>]

legacy_WEAKNESS_TEMPLATES ==
    [weak_evidence     |-> <<CONSTRAINT_MARKER, "In this speech, rely primarily on anecdotal evidence ...">>,
     argument_dropping |-> <<CONSTRAINT_MARKER, "In this speech, ignore one or two of your opponent's key arguments ...">>,
     logical_gaps      |-> <<CONSTRAINT_MARKER, "In this speech, include one or two logical fallacies ...">>,
     burden_of_proof   |-> <<CONSTRAINT_MARKER, "In this speech, make key assertions without adequate support ...">>]

\* Faulty variant: the constraint is injected whoever speaks.
legacy_build_system_prompt_both_sides(side, weakness, target_side, role) ==
    LET prompt == legacy_BASE_SYSTEM_PROMPTS[side]
    IN  IF weakness # None
        THEN IF weakness = "argument_dropping" /\ role = "opening"
             THEN prompt
             ELSE prompt \o <<SEP>> \o legacy_WEAKNESS_TEMPLATES[weakness]
        ELSE prompt

legacy_build_system_prompt(side, weakness, target_side, role) ==
    LET prompt == legacy_BASE_SYSTEM_PROMPTS[side]
    IN  IF weakness # None /\ target_side = side
        THEN IF weakness = "argument_dropping" /\ role = "opening"
             THEN prompt
             ELSE prompt \o <<SEP>> \o legacy_WEAKNESS_TEMPLATES[weakness]
        ELSE prompt

legacy_build_user_prompt(resolution, role, previous_turns) ==
    LET history ==
            IF previous_turns # <<>>
            THEN << <<HISTORY_START>> >>
                 \o [k \in 1..Len(previous_turns) |->
                        <<"[", upper[previous_turns[k].speaker], " -- ",
                          previous_turns[k].role, "]", "\n">> \o previous_turns[k].text]
                 \o << <<HISTORY_END>> >>
            ELSE <<>>
        parts == << <<"Resolution: ">> \o resolution >>
                 \o history
                 \o << legacy_TURN_INSTRUCTIONS[role] >>
    IN  join(SEP, parts)

(***************************************************************************)
(* generator.py                                                            *)
(***************************************************************************)
\* uuid4().hex[:8]: any identifier, a repeated one included.
DebateIds == {"d1", "d2"}

\* random.random() and control_ratio, in hundredths.
RandomDraws == {0, 19, 20, 99}
ControlRatios == {0, 20, 100}

ConstraintInfo(type, target_side) == [type |-> type, target_side |-> target_side]

\* Every ConstraintInfo object the model class admits.
ConstraintInfos ==
    {ConstraintInfo(t, s) : t \in WeaknessType \cup {None}, s \in Side \cup {None}}

\* Faulty variant: the draw is compared with <= .
_pick_constraint_inclusive(control_ratio, u, type, target_side) ==
    IF u <= control_ratio
    THEN ConstraintInfo(None, None)
    ELSE ConstraintInfo(type, target_side)

_pick_constraint(control_ratio, u, type, target_side) ==
    IF u < control_ratio
    THEN ConstraintInfo(None, None)
    ELSE ConstraintInfo(type, target_side)

\* Faulty variant: the latest turn is left out of the history.
PreviousTriples_stale(ts) ==
    [j \in 1..(Len(ts) - 1) |->
        [speaker |-> ts[j].speaker, role |-> ts[j].role, text |-> ts[j].text]]

\* previous = [{"speaker": t.speaker.value, "role": t.role, "text": t.text} for t in turns]
PreviousTriples(ts) ==
    [j \in 1..Len(ts) |->
        [speaker |-> ts[j].speaker, role |-> ts[j].role, text |-> ts[j].text]]

\* debate.model_dump_json(): the document of the object, field by field.
model_dump_json(d) ==
    [metadata |-> [debate_id |-> d.metadata.debate_id,
                   resolution |-> d.metadata.resolution,
                   category |-> d.metadata.category,
                   aff_model |-> d.metadata.aff_model,
                   neg_model |-> d.metadata.neg_model,
                   constraint |-> [type |-> d.metadata.constraint.type,
                                   target_side |-> d.metadata.constraint.target_side],
                   is_control |-> d.metadata.is_control],
     turns |-> [k \in 1..Len(d.turns) |->
                  [speaker |-> d.turns[k].speaker, role |-> d.turns[k].role,
                   text |-> d.turns[k].text]]]

\* path.write_text(content): creates or replaces the file.
write_text(dir, name, content) ==
    [f \in DOMAIN dir \cup {name} |-> IF f = name THEN content ELSE dir[f]]

\* generate_single_debate, entry: is_control and the metadata (fresh id).
Enter ==
    /\ pc = "entry"
    /\ \E id \in DebateIds :
         metadata' = [active |-> TRUE,
                      debate_id |-> id,
                      resolution |-> args.resolution,
                      category |-> args.category,
                      aff_model |-> args.aff_config,
                      neg_model |-> args.neg_config,
                      constraint |-> args.constraint,
                      is_control |-> (args.constraint.type = None)]
    /\ turns' = <<>>
    /\ calls' = <<>>
    /\ pc' = "loop"
    /\ UNCHANGED <<batch, args, inflight, result, files, written, modelVars, promptVars, voiceVars, serviceVars>>

\* One iteration of the loop up to agent.run_sync(user_prompt).
IssueCall ==
    /\ pc = "loop"
    /\ Len(calls) < Len(TURN_SEQUENCE)
    /\ LET speaker == TURN_SEQUENCE[Len(calls) + 1][1]
           role == TURN_SEQUENCE[Len(calls) + 1][2]
           config == IF speaker = "aff" THEN args.aff_config ELSE args.neg_config
           system_prompt == legacy_build_system_prompt(
                                speaker, args.constraint.type,
                                args.constraint.target_side, role)
           previous == PreviousTriples(turns)
           user_prompt == legacy_build_user_prompt(args.resolution, role, previous)
           c == [speaker |-> speaker, role |-> role, config |-> config,
                 system_prompt |-> system_prompt, user_prompt |-> user_prompt,
                 output |-> <<>>]
       IN  /\ inflight' = <<c>>
           /\ calls' = Append(calls, c)
    /\ pc' = "await"
    /\ UNCHANGED <<batch, args, metadata, turns, result, files, written,
                   modelVars, promptVars, voiceVars, serviceVars>>

\* run_sync returns result.output; the turn is appended.
AgentReturns(text) ==
    /\ pc = "await"
    /\ turns' = Append(turns, Turn(inflight[1].speaker, inflight[1].role, text))
    /\ calls' = [calls EXCEPT ![Len(calls)].output = <<text>>]
    /\ inflight' = <<>>
    /\ pc' = IF Len(calls) = Len(TURN_SEQUENCE) THEN "assemble" ELSE "loop"
    /\ UNCHANGED <<batch, args, metadata, result, files, written, modelVars, promptVars, voiceVars, serviceVars>>

\* Faulty variant: the turns gathered so far are saved when a call fails.
AgentFails_partial ==
    /\ pc = "await"
    /\ inflight' = <<>>
    /\ pc' = "raised"
    /\ files' = write_text(files, metadata.debate_id,
                           model_dump_json([metadata |-> metadata, turns |-> turns]))
    /\ UNCHANGED <<batch, args, metadata, turns, calls, result, written,
                   modelVars, promptVars, voiceVars, serviceVars>>

\* make_agent or run_sync raises: nothing catches it, neither in
\* generate_single_debate nor in generate_batch.
AgentFails ==
    /\ pc = "await"
    /\ inflight' = <<>>
    /\ pc' = "raised"
    /\ UNCHANGED <<batch, args, metadata, turns, calls, result, files, written,
                   modelVars, promptVars, voiceVars, serviceVars>>

\* return Debate(metadata=metadata, turns=turns)
Assemble ==
    /\ pc = "assemble"
    /\ LET v == Debate_model_validate([metadata |-> metadata, turns |-> turns])
       IN  /\ result' = v.value
           /\ pc' = IF v.status = "accepted" THEN "returned" ELSE "raised"
    /\ UNCHANGED <<batch, args, metadata, turns, inflight, calls, files, written,
                   modelVars, promptVars, voiceVars, serviceVars>>

\* generate_batch, top of an iteration: the resolution and the constraint
\* are drawn and generate_single_debate is called.
BatchIter ==
    /\ pc = "batch"
    /\ batch.i < batch.n
    /\ \E k \in 1..Len(batch.pool), u \in RandomDraws, t \in WeaknessType, s \in Side :
         args' = [active |-> TRUE,
                  resolution |-> batch.pool[k].text,
                  category |-> batch.pool[k].category,
                  aff_config |-> batch.aff_config,
                  neg_config |-> batch.neg_config,
                  constraint |-> _pick_constraint(batch.control_ratio, u, t, s)]
    /\ pc' = "entry"
    /\ UNCHANGED <<batch, metadata, turns, inflight, calls, result, files, written,
                   modelVars, promptVars, voiceVars, serviceVars>>

\* generate_batch, rest of the iteration: the debate is written to
\* <debate_id>.json and its path recorded.
WriteFile ==
    /\ pc = "returned"
    /\ batch.active
    /\ LET filename == result[1].metadata.debate_id
       IN  /\ files' = write_text(files, filename, model_dump_json(result[1]))
           /\ written' = Append(written, filename)
    /\ batch' = [batch EXCEPT !.i = @ + 1]
    /\ args' = NoArgs /\ metadata' = NoMetadata /\ turns' = <<>>
    /\ calls' = <<>> /\ result' = <<>>
    /\ pc' = "batch"
    /\ UNCHANGED <<inflight, modelVars, promptVars, voiceVars, serviceVars>>

\* generate_batch returns written.
BatchReturn ==
    /\ pc = "batch"
    /\ batch.i = batch.n
    /\ pc' = "done"
    /\ UNCHANGED <<batch, args, metadata, turns, inflight, calls, result, files,
                   written, modelVars, promptVars, voiceVars, serviceVars>>

AFF_CONFIG == [provider |-> "anthropic", model_name |-> "m-aff"]
NEG_CONFIG == [provider |-> "openai", model_name |-> "m-neg"]

\* One call of generate_single_debate with any arguments.
InitSeq ==
    /\ pc = "entry"
    /\ batch = NoBatch
    /\ \E r \in Resolutions, c \in ConstraintInfos :
         args = [active |-> TRUE, resolution |-> r, category |-> "policy",
                 aff_config |-> AFF_CONFIG, neg_config |-> NEG_CONFIG,
                 constraint |-> c]
    /\ metadata = NoMetadata /\ turns = <<>> /\ inflight = <<>>
    /\ calls = <<>> /\ result = <<>>
    /\ files = NoFiles /\ written = <<>>
    /\ ModelsIdle /\ PromptsIdle /\ VoiceIdle /\ ServiceIdle
NextSeq ==
    \/ Enter
    \/ IssueCall
    \/ \E text \in Texts : AgentReturns(text)
    \/ AgentFails
    \/ Assemble
SpecSeq == InitSeq /\ [][NextSeq]_vars

\* One call of generate_batch over a pool of one resolution, n <= MaxBatch,
\* into an empty output directory, category_filter and resolution_override
\* at their defaults (None); the completion service answers one text.
InitBatch ==
    /\ pc = "batch"
    /\ \E n \in 0..MaxBatch, r \in ControlRatios :
         batch = [active |-> TRUE, n |-> n, i |-> 0, control_ratio |-> r,
                  pool |-> << [text |-> <<"Ban cars">>, category |-> "policy"] >>,
                  aff_config |-> AFF_CONFIG, neg_config |-> NEG_CONFIG]
    /\ GenLocalsIdle
    /\ files = NoFiles /\ written = <<>>
    /\ ModelsIdle /\ PromptsIdle /\ VoiceIdle /\ ServiceIdle
NextBatch ==
    \/ BatchIter
    \/ Enter
    \/ IssueCall
    \/ AgentReturns(<<"Cars are bad.">>)
    \/ AgentFails
    \/ Assemble
    \/ WriteFile
    \/ BatchReturn
SpecBatch == InitBatch /\ [][NextBatch]_vars

Returned(c) == c.output # <<>>

\* C8: the completion calls of a run are issued one after another in the
\* order (AFF, opening), (NEG, response), (AFF, rebuttal), (NEG, closing),
\* whatever the texts: every call but the latest has returned, and a run that
\* returns has made four calls and returns their four outputs as its turns.
C8_SequentialFixedOrder ==
    /\ Len(inflight) <= 1
    /\ Len(calls) <= 4
    /\ \A j \in 1..Len(calls) :
          /\ <<calls[j].speaker, calls[j].role>> = FixedOrder[j]
          /\ j < Len(calls) => Returned(calls[j])
    /\ inflight # <<>> => (calls # <<>> /\ ~Returned(calls[Len(calls)]))
    /\ pc = "returned" =>
          /\ Len(calls) = 4
          /\ \A j \in 1..4 : Returned(calls[j])
          /\ Len(result) = 1
          /\ result[1].turns =
                [j \in 1..4 |-> [speaker |-> FixedOrder[j][1], role |-> FixedOrder[j][2],
                                 text |-> calls[j].output[1]]]

C8_Witness ==
    /\ pc = "returned"
    /\ Len(calls) = 4
    /\ calls[1].output # calls[2].output
    /\ calls[3].output # calls[4].output

\* The triples of the turns produced before call k, from what the service
\* returned to the calls before it.
PriorTriples(k) ==
    [j \in 1..(k - 1) |-> [speaker |-> FixedOrder[j][1], role |-> FixedOrder[j][2],
                           text |-> calls[j].output[1]]]

C9_State ==
    /\ \A k \in 1..Len(calls) :
          /\ \A j \in 1..(k - 1) : Returned(calls[j])
          /\ LET prompt == calls[k].user_prompt
                 starts == Occurrences(prompt, HISTORY_START)
                 ends == Occurrences(prompt, HISTORY_END)
             IN  IF k = 1
                 THEN starts = {} /\ ends = {}
                 ELSE /\ Cardinality(starts) = 1 /\ Cardinality(ends) = 1
                      /\ \E s \in starts, e \in ends :
                            /\ s < e
                            /\ SubSeq(prompt, s + 1, e - 1)
                                  = <<SEP>> \o ExpectedEntries(PriorTriples(k))
    /\ Len(turns) = Cardinality({j \in 1..Len(calls) : Returned(calls[j])})
    /\ \A j \in 1..Len(turns) :
          /\ j <= Len(calls) /\ Returned(calls[j])
          /\ turns[j] = [speaker |-> FixedOrder[j][1], role |-> FixedOrder[j][2],
                         text |-> calls[j].output[1]]

C9_Step == IsPrefix(turns, turns') /\ Len(turns') <= Len(turns) + 1

\* C9: the turn list only grows by appending, a turn is what the service
\* returned and is never changed or removed, and the user instruction of the
\* k-th call shows exactly the k-1 turns produced so far, in order.
C9_AppendOnlyHistory == []C9_State /\ [][C9_Step]_vars

C9_Witness ==
    /\ pc = "await"
    /\ Len(calls) = 4
    /\ Len(turns) = 3
    /\ turns[1].text # turns[2].text

C10_State ==
    /\ \A f \in DOMAIN files : Len(files[f].turns) = 4
    /\ DOMAIN files = {written[j] : j \in 1..Len(written)}
    /\ pc = "raised" => (result = <<>> /\ Len(written) = batch.i)

C10_Step ==
    (pc = "raised" \/ pc' = "raised") =>
        (pc' = "raised" /\ files' = files /\ written' = written)

\* C10: when a completion call fails, generate_single_debate returns no
\* Debate, the failure ends generate_batch, no file is written for that
\* debate, every file holds four turns, and the files written before stay
\* as they are.
C10_FailureAborts == []C10_State /\ [][C10_Step]_vars

C10_Witness ==
    /\ pc = "raised"
    /\ Len(written) = 1
    /\ Len(turns) = 2

(***************************************************************************)
(* C11: in a run of generate_single_debate the system prompt of a turn     *)
(* holds the injection marker only if the turn is spoken by the            *)
(* constraint's target side: in a control debate none of the system        *)
(* prompts holds it, and under a weakness without opening exemption every  *)
(* turn of the target side holds it (once, followed by the template text)  *)
(* and no turn of the other side does.                                     *)
(***************************************************************************)
HasMarker(prompt) == Occurrences(prompt, CONSTRAINT_MARKER) # {}

\* The weakness types build_system_prompt injects on every role.
NoOpeningExemption == WeaknessType \ {"argument_dropping"}

C11_MarkerOnlyOnTargetSide ==
    \A k \in 1..Len(calls) :
        /\ HasMarker(calls[k].system_prompt)
              => /\ args.constraint.type # None
                 /\ args.constraint.target_side = calls[k].speaker
        /\ args.constraint.type = None => ~HasMarker(calls[k].system_prompt)
        /\ (/\ args.constraint.type \in NoOpeningExemption
            /\ args.constraint.target_side = calls[k].speaker)
              => /\ Cardinality(Occurrences(calls[k].system_prompt, CONSTRAINT_MARKER)) = 1
                 /\ IsSuffix(legacy_WEAKNESS_TEMPLATES[args.constraint.type],
                             calls[k].system_prompt)

\* A finished run under logical_gaps aimed at NEG: both NEG turns carry
\* the marker, neither AFF turn does.
C11_Witness ==
    /\ pc = "returned"
    /\ args.constraint = ConstraintInfo("logical_gaps", "neg")
    /\ Len(calls) = 4
    /\ HasMarker(calls[2].system_prompt) /\ HasMarker(calls[4].system_prompt)
    /\ ~HasMarker(calls[1].system_prompt) /\ ~HasMarker(calls[3].system_prompt)

(***************************************************************************)
(* C12: _pick_constraint with control_ratio 0 never returns a control,     *)
(* with control_ratio 1 always returns a control; whatever the ratio the   *)
(* result is either a control (type and target side both absent) or a      *)
(* constrained assignment (type in WeaknessType, target side AFF or NEG);  *)
(* and below ratio 1 every (type, side) combination is a possible result.  *)
(***************************************************************************)
\* The results _pick_constraint can produce under control_ratio r.
PickResults(r) ==
    {_pick_constraint(r, u, t, s) : u \in RandomDraws, t \in WeaknessType, s \in Side}

C12_PickConstraint ==
    pc = "entry" /\ batch.active =>
        LET r == batch.control_ratio
            c == args.constraint
        IN  /\ r = 0 => c.type # None
            /\ r = 100 => c = ConstraintInfo(None, None)
            /\ \/ c.type = None /\ c.target_side = None
               \/ c.type \in WeaknessType /\ c.target_side \in Side
            /\ r < 100 =>
                 \A t \in WeaknessType, s \in Side : ConstraintInfo(t, s) \in PickResults(r)

\* A draw below a ratio strictly between 0 and 1 gave a control.
C12_Witness ==
    /\ pc = "entry" /\ batch.active
    /\ batch.control_ratio = 20
    /\ args.constraint = ConstraintInfo(None, None)

(***************************************************************************)
(* voice.py: provider detection, voice pools, voice pairing                *)
(***************************************************************************)
ProviderKeys == {"DF_ELEVENLABS_API_KEY", "ELEVENLABS_API_KEY", "OPENAI_API_KEY"}
Providers == {"elevenlabs", "openai"}
ValueError == "ValueError"

\* The provider the environment selects, ValueError when no key is set.
get_provider ==
    IF env \cap {"DF_ELEVENLABS_API_KEY", "ELEVENLABS_API_KEY"} # {} THEN "elevenlabs"
    ELSE IF "OPENAI_API_KEY" \in env THEN "openai"
    ELSE ValueError

ELEVENLABS_VOICE_POOL == <<"George", "Liam", "Charlotte", "Lily", "Will", "Laura">>
OPENAI_VOICE_POOL == <<"alloy", "echo", "fable", "onyx", "nova", "shimmer">>

\* provider or get_provider()
resolve_provider(provider) == IF provider # None THEN provider ELSE get_provider

get_voice_pool(provider) ==
    IF resolve_provider(provider) = "elevenlabs"
    THEN ELEVENLABS_VOICE_POOL
    ELSE OPENAI_VOICE_POOL

\* list(itertools.combinations(pool, 2)): index pairs in lexicographic order.
RECURSIVE _all_distinct_pairs(_)
_all_distinct_pairs(pool) ==
    IF Len(pool) < 2 THEN <<>>
    ELSE [j \in 1..(Len(pool) - 1) |-> <<pool[1], pool[j + 1]>>]
         \o _all_distinct_pairs(Tail(pool))

\* The identifiers hashed in the model and, for each, the value of
\* int(sha256(id.encode()).hexdigest(), 16) modulo 1260; 1260 is a multiple
\* of k(k-1)/2 for every k in 2..9, so h % len(pairs) is computed exactly.
HashedIds == {"d1", "d2", "d3", "d4", "d5", "d6", "d7", "d8"}
sha256_residue ==
    [d1 |-> 145, d2 |-> 196, d3 |-> 1214, d4 |-> 656,
     d5 |-> 571, d6 |-> 742, d7 |-> 278, d8 |-> 816]

\* Faulty variant: the combination after the one the hash selects.
select_pair_next(debate_id, pool) ==
    LET pairs == _all_distinct_pairs(pool)
        idx == (sha256_residue[debate_id] + 1) % Len(pairs)
    IN  pairs[idx + 1]

\* pick_voice_pair from the pool on: pairs, h, idx, pairs[idx].
select_pair(debate_id, pool) ==
    LET pairs == _all_distinct_pairs(pool)
        idx == sha256_residue[debate_id] % Len(pairs)
    IN  pairs[idx + 1]

\* Faulty variant: the index moves with the number of calls made so far.
pick_voice_pair_rotating(debate_id, provider) ==
    IF resolve_provider(provider) = ValueError THEN <<ValueError>>
    ELSE LET pairs == _all_distinct_pairs(get_voice_pool(provider))
         IN  pairs[((sha256_residue[debate_id] + Len(picks)) % Len(pairs)) + 1]

\* The pair returned, or <<ValueError>> when get_provider raises.
pick_voice_pair(debate_id, provider) ==
    IF resolve_provider(provider) = ValueError THEN <<ValueError>>
    ELSE select_pair(debate_id, get_voice_pool(provider))

\* The debates voiced in a run.
VoicedIds == {"d1", "d3"}

\* os.environ changes (a key is set or removed, or the process restarts
\* under another configuration).
SetEnv ==
    /\ \E e \in SUBSET ProviderKeys : e # env /\ env' = e
    /\ UNCHANGED <<picks, modelVars, promptVars, genVars, serviceVars>>

\* One call pick_voice_pair(debate_id, provider), provider passed or not.
PickVoicePair ==
    /\ Len(picks) < MaxPicks
    /\ \E id \in VoicedIds, provider \in Providers \cup {None} :
         picks' = Append(picks, [debate_id |-> id,
                                 provider |-> provider,
                                 resolved |-> resolve_provider(provider),
                                 result |-> pick_voice_pair(id, provider)])
    /\ UNCHANGED <<env, modelVars, promptVars, genVars, serviceVars>>

InitVoice ==
    /\ env \in SUBSET ProviderKeys
    /\ picks = <<>>
    /\ ModelsIdle /\ PromptsIdle /\ GenIdle /\ ServiceIdle
NextVoice == SetEnv \/ PickVoicePair
SpecVoice == InitVoice /\ [][NextVoice]_vars

\* The pair selection applied to one identifier and one pool: every
\* window of at most MaxPool voices of the two pools laid end to end
\* (the two pools themselves are the windows of six at 1 and at 7).
AllVoices == ELEVENLABS_VOICE_POOL \o OPENAI_VOICE_POOL
Pools ==
    UNION {{SubSeq(AllVoices, s, s + k - 1) : s \in 1..(Len(AllVoices) - k + 1)} :
           k \in 2..MaxPool}
PairCalls == [fn : {"select_pair"}, debate_id : HashedIds, pool : Pools]

SelectPair ==
    /\ call.fn = "select_pair" /\ ret = <<>>
    /\ ret' = <<select_pair(call.debate_id, call.pool)>>
    /\ UNCHANGED <<call, modelVars, genVars, voiceVars, serviceVars>>

InitPairs ==
    /\ call \in PairCalls
    /\ ret = <<>>
    /\ ModelsIdle /\ GenIdle /\ VoiceIdle /\ ServiceIdle
NextPairs == SelectPair
SpecPairs == InitPairs /\ [][NextPairs]_vars

(***************************************************************************)
(* C13 as stated: pick_voice_pair called with the debate identifier only   *)
(* returns the same pair for the same identifier, whatever speech-provider *)
(* keys are configured at the time of the call.                            *)
(***************************************************************************)
C13_FunctionOfIdAlone ==
    \A i, j \in 1..Len(picks) :
        (/\ picks[i].debate_id = picks[j].debate_id
         /\ picks[i].provider = None /\ picks[j].provider = None)
            => picks[i].result = picks[j].result

(***************************************************************************)
(* C13 amended: under one provider (passed, or selected by the configured  *)
(* keys) two calls with the same debate identifier return the same pair,   *)
(* whenever they are made and whatever was called or reconfigured in       *)
(* between; a call raises exactly when no provider is passed and no key    *)
(* is configured.                                                          *)
(***************************************************************************)
C13_FunctionOfIdAndProvider ==
    \A i, j \in 1..Len(picks) :
        /\ (/\ picks[i].debate_id = picks[j].debate_id
            /\ picks[i].resolved = picks[j].resolved)
              => picks[i].result = picks[j].result
        /\ picks[i].result = <<ValueError>> <=> picks[i].resolved = ValueError
        /\ picks[i].resolved = ValueError => picks[i].provider = None

\* Two calls for one debate under one provider, once by argument and once
\* by the environment, with a call for another debate in between.
C13_Witness ==
    /\ Len(picks) = 3
    /\ picks[1].debate_id = "d1" /\ picks[1].provider = "openai"
    /\ picks[2].debate_id = "d3"
    /\ picks[3].debate_id = "d1" /\ picks[3].provider = None
    /\ picks[3].resolved = "openai"
    /\ picks[1].result = picks[3].result
    /\ picks[2].result # picks[1].result

(***************************************************************************)
(* C14: for every identifier and every pool of k >= 2 voices the pair      *)
(* returned is the 2-combination at index hash mod k(k-1)/2 in the         *)
(* lexicographic order of pool positions, first voice for AFF and second   *)
(* for NEG: the voices differ and the AFF voice stands before the NEG      *)
(* voice in the pool.                                                      *)
(***************************************************************************)
\* 0-based index of the combination of positions i < j among k.
CombinationIndex(i, j, k) == (i - 1) * k - ((i - 1) * i) \div 2 + (j - i - 1)

C14_PairAtHashIndex ==
    (call.fn = "select_pair" /\ ret # <<>>) =>
        LET pool == call.pool
            k == Len(pool)
            idx == sha256_residue[call.debate_id] % ((k * (k - 1)) \div 2)
        IN  /\ ret[1][1] # ret[1][2]
            /\ \E i, j \in 1..k :
                 /\ i < j
                 /\ CombinationIndex(i, j, k) = idx
                 /\ ret[1] = <<pool[i], pool[j]>>

\* The last combination of the ElevenLabs pool: index 14 of 15.
C14_Witness ==
    /\ call.fn = "select_pair" /\ call.debate_id = "d3"
    /\ call.pool = ELEVENLABS_VOICE_POOL
    /\ ret = << <<"Will", "Laura">> >>

(***************************************************************************)
(* models.py: annotations                                                  *)
(***************************************************************************)
ANNOTATION_DIMENSIONS ==
    <<"clash_engagement", "burden_fulfillment", "rebuttal_quality",
      "argument_extension", "strategic_adaptation">>

DimensionScore(dimension, aff_score, neg_score) ==
    [dimension |-> dimension, aff_score |-> aff_score, neg_score |-> neg_score]

Annotation(debate_id, annotator_id, winner, dimension_scores) ==
    [debate_id |-> debate_id, annotator_id |-> annotator_id, winner |-> winner,
     dimension_scores |-> dimension_scores]

Range(f) == {f[x] : x \in DOMAIN f}

RECURSIVE Sum(_)
Sum(seq) == IF seq = <<>> THEN 0 ELSE Head(seq) + Sum(Tail(seq))

(***************************************************************************)
(* agreement.py                                                            *)
(*                                                                         *)
(* A float is modelled as the exact rational it approximates, a fraction   *)
(* in lowest terms with a positive denominator; denominator 0 stands for   *)
(* ZeroDivisionError.  n * n stays far below 2^53, so the test             *)
(* p_e == 1.0 succeeds exactly when the two integers divided are equal.    *)
(***************************************************************************)
Abs(x) == IF x < 0 THEN -x ELSE x

RECURSIVE GCD(_, _)
GCD(a, b) == IF b = 0 THEN a ELSE GCD(b, a % b)

ZeroDivisionError == [num |-> 0, den |-> 0]

\* num / den
Rat(num, den) ==
    IF den = 0 THEN ZeroDivisionError
    ELSE LET g == GCD(Abs(num), Abs(den))
             sgn == IF den < 0 THEN -1 ELSE 1
         IN  [num |-> sgn * (num \div g), den |-> sgn * (den \div g)]

RatSub(x, y) == Rat(x.num * y.den - y.num * x.den, x.den * y.den)
RatDiv(x, y) == Rat(x.num * y.den, x.den * y.num)
Zero == Rat(0, 1)
One == Rat(1, 1)

\* Python's order of the strings used as labels and as identifiers.
StringOrder ==
    <<"1", "2", "3", "JK", "SP", "aff", "argument_extension", "burden_fulfillment",
      "clash_engagement", "d1", "d2", "d3", "made_up_dimension", "neg", "rebuttal_quality",
      "strategic_adaptation">>

\* sorted(S) for a set of strings.
sorted(S) == LET in(x) == x \in S IN SelectSeq(StringOrder, in)

\* str(score)
str(score) == <<"0", "1", "2", "3", "4">>[score + 1]

\* Faulty variant: chance agreement divided by n instead of n * n.
_cohens_kappa_p_e_by_n(labels_a, labels_b) ==
    LET n == Len(labels_a)
        categories == sorted(Range(labels_a) \cup Range(labels_b))
        k == Len(categories)
        matrix == [i \in 1..k |-> [j \in 1..k |->
                     Cardinality({t \in 1..n : /\ labels_a[t] = categories[i]
                                               /\ labels_b[t] = categories[j]})]]
        p_o == Rat(Sum([i \in 1..k |-> matrix[i][i]]), n)
        p_e == Rat(Sum([i \in 1..k |->
                          Sum([j \in 1..k |-> matrix[i][j]])
                          * Sum([j \in 1..k |-> matrix[j][i]])]),
                   n)
    IN  IF n = 0 THEN Zero
        ELSE IF p_e = One THEN One
        ELSE RatDiv(RatSub(p_o, p_e), RatSub(One, p_e))

\* Faulty variant: the single-category case is not set apart.
_cohens_kappa_unguarded(labels_a, labels_b) ==
    LET n == Len(labels_a)
        categories == sorted(Range(labels_a) \cup Range(labels_b))
        k == Len(categories)
        matrix == [i \in 1..k |-> [j \in 1..k |->
                     Cardinality({t \in 1..n : /\ labels_a[t] = categories[i]
                                               /\ labels_b[t] = categories[j]})]]
        p_o == Rat(Sum([i \in 1..k |-> matrix[i][i]]), n)
        p_e == Rat(Sum([i \in 1..k |->
                          Sum([j \in 1..k |-> matrix[i][j]])
                          * Sum([j \in 1..k |-> matrix[j][i]])]),
                   n * n)
    IN  IF n = 0 THEN Zero
        ELSE RatDiv(RatSub(p_o, p_e), RatSub(One, p_e))

_cohens_kappa(labels_a, labels_b) ==
    LET n == Len(labels_a)
        categories == sorted(Range(labels_a) \cup Range(labels_b))
        k == Len(categories)
        matrix == [i \in 1..k |-> [j \in 1..k |->
                     Cardinality({t \in 1..n : /\ labels_a[t] = categories[i]
                                               /\ labels_b[t] = categories[j]})]]
        p_o == Rat(Sum([i \in 1..k |-> matrix[i][i]]), n)
        p_e == Rat(Sum([i \in 1..k |->
                          Sum([j \in 1..k |-> matrix[i][j]])
                          * Sum([j \in 1..k |-> matrix[j][i]])]),
                   n * n)
    IN  IF n = 0 THEN Zero
        ELSE IF p_e = One THEN One
        ELSE RatDiv(RatSub(p_o, p_e), RatSub(One, p_e))

\* The label lists handed to _cohens_kappa: two lists of one length.
KappaLabels == {"1", "2", "3"}
KappaCalls ==
    UNION {[fn : {"_cohens_kappa"},
            labels_a : [1..n -> KappaLabels],
            labels_b : [1..n -> KappaLabels]] : n \in 0..MaxLabels}

CohensKappa ==
    /\ call.fn = "_cohens_kappa" /\ ret = <<>>
    /\ ret' = <<_cohens_kappa(call.labels_a, call.labels_b)>>
    /\ UNCHANGED <<call, modelVars, genVars, voiceVars, serviceVars>>

InitKappa ==
    /\ call \in KappaCalls
    /\ ret = <<>>
    /\ ModelsIdle /\ GenIdle /\ VoiceIdle /\ ServiceIdle
NextKappa == CohensKappa
SpecKappa == InitKappa /\ [][NextKappa]_vars

\* by_debate[debate_id]: the annotations of one debate, in input order.
by_debate(annotations, debate_id) ==
    LET of(ann) == ann.debate_id = debate_id IN SelectSeq(annotations, of)

\* Faulty variant: two annotations of one annotator make a pair.
RECURSIVE paired_any_annotator(_, _)
paired_any_annotator(annotations, ids) ==
    IF ids = <<>> THEN <<>>
    ELSE LET anns == by_debate(annotations, Head(ids))
         IN  (IF Len(anns) = 2 THEN << <<anns[1], anns[2]>> >> ELSE <<>>)
             \o paired_any_annotator(annotations, Tail(ids))

\* The loop over sorted(by_debate.items()) that fills paired.
RECURSIVE paired_loop(_, _)
paired_loop(annotations, ids) ==
    IF ids = <<>> THEN <<>>
    ELSE LET anns == by_debate(annotations, Head(ids))
         IN  (IF Len(anns) = 2 /\ anns[1].annotator_id # anns[2].annotator_id
              THEN << <<anns[1], anns[2]>> >>
              ELSE <<>>)
             \o paired_loop(annotations, Tail(ids))

\* next(ds for ds in ann.dimension_scores if ds.dimension == dim)
next_score(ann, dim) ==
    LET ds == ann.dimension_scores
        i == CHOOSE i \in 1..Len(ds) :
                 /\ ds[i].dimension = dim
                 /\ \A j \in 1..(i - 1) : ds[j].dimension # dim
    IN  ds[i]

\* Faulty variant: neg_kappa computed from the AFF scores.
dimension_entry_aff_twice(paired, dim) ==
    LET aff_a == [k \in 1..Len(paired) |-> str(next_score(paired[k][1], dim).aff_score)]
        aff_b == [k \in 1..Len(paired) |-> str(next_score(paired[k][2], dim).aff_score)]
    IN  [aff_kappa |-> _cohens_kappa(aff_a, aff_b),
         neg_kappa |-> _cohens_kappa(aff_a, aff_b)]

\* One iteration of the loop over ANNOTATION_DIMENSIONS.
dimension_entry(paired, dim) ==
    LET aff_a == [k \in 1..Len(paired) |-> str(next_score(paired[k][1], dim).aff_score)]
        aff_b == [k \in 1..Len(paired) |-> str(next_score(paired[k][2], dim).aff_score)]
        neg_a == [k \in 1..Len(paired) |-> str(next_score(paired[k][1], dim).neg_score)]
        neg_b == [k \in 1..Len(paired) |-> str(next_score(paired[k][2], dim).neg_score)]
    IN  [aff_kappa |-> _cohens_kappa(aff_a, aff_b),
         neg_kappa |-> _cohens_kappa(neg_a, neg_b)]

\* The empty dict.  (winner_kappa, a float or None, is <<x>> or <<>>.)
NoDimensions == [dim \in {} |-> None]

\* Faulty variant: no early return when nothing is paired.
compute_agreement_no_early_return(annotations) ==
    LET ids == sorted({annotations[i].debate_id : i \in 1..Len(annotations)})
        paired == paired_loop(annotations, ids)
        winners_a == [k \in 1..Len(paired) |-> paired[k][1].winner]
        winners_b == [k \in 1..Len(paired) |-> paired[k][2].winner]
    IN  [paired_debates |-> Len(paired),
         winner_kappa |-> <<_cohens_kappa(winners_a, winners_b)>>,
         dimension_agreement |->
             [dim \in Range(ANNOTATION_DIMENSIONS) |-> dimension_entry(paired, dim)]]

compute_agreement(annotations) ==
    LET ids == sorted({annotations[i].debate_id : i \in 1..Len(annotations)})
        paired == paired_loop(annotations, ids)
        winners_a == [k \in 1..Len(paired) |-> paired[k][1].winner]
        winners_b == [k \in 1..Len(paired) |-> paired[k][2].winner]
    IN  IF paired = <<>>
        THEN [paired_debates |-> 0, winner_kappa |-> <<>>,
              dimension_agreement |-> NoDimensions]
        ELSE [paired_debates |-> Len(paired),
              winner_kappa |-> <<_cohens_kappa(winners_a, winners_b)>>,
              dimension_agreement |->
                  [dim \in Range(ANNOTATION_DIMENSIONS) |-> dimension_entry(paired, dim)]]

\* The judgements an annotation of the model carries: a winner and the
\* five dimension scores, listed in rubric order or in reverse.
Judgements ==
    { [winner |-> "aff",
       dimension_scores |->
           [k \in 1..5 |-> DimensionScore(ANNOTATION_DIMENSIONS[k],
                                          <<1, 2, 3, 1, 2>>[k], <<3, 1, 2, 2, 1>>[k])]],
      [winner |-> "neg",
       dimension_scores |->
           [k \in 1..5 |-> DimensionScore(ANNOTATION_DIMENSIONS[6 - k],
                                          <<3, 3, 1, 2, 2>>[k], <<2, 1, 3, 3, 1>>[k])]] }

AnnotatorIds == {"SP", "JK"}

Annotations ==
    {Annotation(id, who, j.winner, j.dimension_scores) :
        id \in DebateIds, who \in AnnotatorIds, j \in Judgements}

AgreementCalls ==
    UNION {[fn : {"compute_agreement"}, annotations : [1..n -> Annotations]] :
           n \in 0..MaxAnnotations}

ComputeAgreement ==
    /\ call.fn = "compute_agreement" /\ ret = <<>>
    /\ ret' = <<compute_agreement(call.annotations)>>
    /\ UNCHANGED <<call, modelVars, genVars, voiceVars, serviceVars>>

InitAgreement ==
    /\ call \in AgreementCalls
    /\ ret = <<>>
    /\ ModelsIdle /\ GenIdle /\ VoiceIdle /\ ServiceIdle
NextAgreement == ComputeAgreement
SpecAgreement == InitAgreement /\ [][NextAgreement]_vars

\* The positions of the annotations of one debate.
Positions(annotations, id) ==
    {i \in 1..Len(annotations) : annotations[i].debate_id = id}

\* The debates with exactly two annotations, by two annotators.
PairedIds(annotations) ==
    {id \in DebateIds :
        \E i, j \in 1..Len(annotations) :
            /\ i < j
            /\ Positions(annotations, id) = {i, j}
            /\ annotations[i].annotator_id # annotations[j].annotator_id}

(***************************************************************************)
(* C15: paired_debates is the number of debate ids that have exactly two   *)
(* annotations whose annotator ids differ; the annotations of any other    *)
(* debate (one annotation, three or more, two by one annotator) count for  *)
(* nothing: the report is the one of the list without them.                *)
(***************************************************************************)
C15_PairedDebates ==
    (call.fn = "compute_agreement" /\ ret # <<>>) =>
        LET anns == call.annotations
            ofPaired(ann) == ann.debate_id \in PairedIds(anns)
        IN  /\ ret[1].paired_debates = Cardinality(PairedIds(anns))
            /\ ret[1] = compute_agreement(SelectSeq(anns, ofPaired))

\* One debate paired, the other annotated three times.
C15_Witness ==
    /\ call.fn = "compute_agreement" /\ ret # <<>>
    /\ Len(call.annotations) = 5
    /\ PairedIds(call.annotations) = {"d1"}
    /\ Cardinality(Positions(call.annotations, "d2")) = 3
    /\ ret[1].paired_debates = 1

(***************************************************************************)
(* C16: when no debate is paired (the empty list included) the call        *)
(* returns paired_debates 0, winner_kappa absent and an empty              *)
(* dimension_agreement; winner_kappa is absent exactly when                *)
(* paired_debates is 0.                                                    *)
(***************************************************************************)
C16_NothingPaired ==
    (call.fn = "compute_agreement" /\ ret # <<>>) =>
        /\ PairedIds(call.annotations) = {} =>
              /\ ret[1].paired_debates = 0
              /\ ret[1].winner_kappa = <<>>
              /\ DOMAIN ret[1].dimension_agreement = {}
        /\ ret[1].winner_kappa = <<>> <=> ret[1].paired_debates = 0

\* Annotations were given, none of them paired.
C16_Witness ==
    /\ call.fn = "compute_agreement" /\ ret # <<>>
    /\ Len(call.annotations) = 3
    /\ Cardinality(Positions(call.annotations, "d1")) = 3
    /\ ret[1] = [paired_debates |-> 0, winner_kappa |-> <<>>,
                 dimension_agreement |-> NoDimensions]

(***************************************************************************)
(* C17: _cohens_kappa returns 0 for empty lists; otherwise, with D the     *)
(* number of positions where the two lists agree and E the sum over the    *)
(* categories of (occurrences in the first list) * (occurrences in the     *)
(* second), it returns 1 when E = n * n and the rational                   *)
(* (n * D - E) / (n * n - E) otherwise, never dividing by zero.            *)
(***************************************************************************)
Count(labels, c) == Cardinality({t \in 1..Len(labels) : labels[t] = c})

Agreements(a, b) == Cardinality({t \in 1..Len(a) : a[t] = b[t]})

\* E: sum of row total times column total over the categories.
ChanceSum(a, b) ==
    Sum([i \in 1..Len(StringOrder) |->
            Count(a, StringOrder[i]) * Count(b, StringOrder[i])])

C17_KappaValue ==
    (call.fn = "_cohens_kappa" /\ ret # <<>>) =>
        LET a == call.labels_a
            b == call.labels_b
            n == Len(a)
            D == Agreements(a, b)
            E == ChanceSum(a, b)
        IN  /\ ret[1].den # 0
            /\ n = 0 => ret[1] = Zero
            /\ (n # 0 /\ E = n * n) => ret[1] = One
            /\ (n # 0 /\ E # n * n) =>
                  ret[1].num * (n * n - E) = (n * D - E) * ret[1].den

\* Partial agreement over three categories: n = 4, D = 2, E = 6, kappa = 1/5.
C17_Witness ==
    /\ call.fn = "_cohens_kappa"
    /\ call.labels_a = <<"1", "2", "3", "1">>
    /\ call.labels_b = <<"1", "2", "1", "3">>
    /\ ret = <<[num |-> 1, den |-> 5]>>

(***************************************************************************)
(* C18: a non-empty label list against itself has kappa exactly 1: by the  *)
(* ordinary formula when at least two categories occur (E < n * n), by     *)
(* the p_e = 1 branch when only one does (E = n * n).                      *)
(***************************************************************************)
C18_SelfAgreement ==
    (/\ call.fn = "_cohens_kappa" /\ ret # <<>>
     /\ call.labels_a = call.labels_b /\ Len(call.labels_a) > 0) =>
        LET a == call.labels_a
            n == Len(a)
        IN  /\ ret[1] = One
            /\ Cardinality(Range(a)) >= 2 <=> ChanceSum(a, a) < n * n
            /\ Cardinality(Range(a)) = 1 <=> ChanceSum(a, a) = n * n

\* One category only: the branch p_e = 1.
C18_Witness ==
    /\ call.fn = "_cohens_kappa"
    /\ call.labels_a = <<"2", "2", "2">>
    /\ call.labels_b = <<"2", "2", "2">>
    /\ ret = <<One>>

(***************************************************************************)
(* C19: when a debate is paired, dimension_agreement has one entry for     *)
(* each of the five rubric dimensions and no other; its aff_kappa          *)
(* (neg_kappa) is the kappa of the two annotators' AFF (NEG) scores for    *)
(* that dimension, taken as labels, over exactly the paired debates in     *)
(* the pairing winner_kappa uses: first-listed against second-listed       *)
(* annotation, debates in order of identifier.                             *)
(***************************************************************************)
\* The two annotations of each paired debate, debates in order of id.
PairsInOrder(annotations) ==
    LET ids == sorted(PairedIds(annotations))
    IN  [k \in 1..Len(ids) |->
            LET i == CHOOSE i \in Positions(annotations, ids[k]) :
                         \A j \in Positions(annotations, ids[k]) : i <= j
                j == CHOOSE j \in Positions(annotations, ids[k]) : j # i
            IN  <<annotations[i], annotations[j]>>]

ScoreFor(ann, dim) ==
    CHOOSE ds \in Range(ann.dimension_scores) : ds.dimension = dim

C19_DimensionAgreement ==
    (/\ call.fn = "compute_agreement" /\ ret # <<>>
     /\ ret[1].paired_debates > 0) =>
        LET ps == PairsInOrder(call.annotations)
            Labels(who, side) ==
                [dim \in Range(ANNOTATION_DIMENSIONS) |->
                    [k \in 1..Len(ps) |->
                        IF side = "aff" THEN str(ScoreFor(ps[k][who], dim).aff_score)
                                        ELSE str(ScoreFor(ps[k][who], dim).neg_score)]]
        IN  /\ DOMAIN ret[1].dimension_agreement = Range(ANNOTATION_DIMENSIONS)
            /\ ret[1].winner_kappa =
                   <<_cohens_kappa([k \in 1..Len(ps) |-> ps[k][1].winner],
                                   [k \in 1..Len(ps) |-> ps[k][2].winner])>>
            /\ \A dim \in Range(ANNOTATION_DIMENSIONS) :
                 /\ DOMAIN ret[1].dimension_agreement[dim] = {"aff_kappa", "neg_kappa"}
                 /\ ret[1].dimension_agreement[dim].aff_kappa =
                        _cohens_kappa(Labels(1, "aff")[dim], Labels(2, "aff")[dim])
                 /\ ret[1].dimension_agreement[dim].neg_kappa =
                        _cohens_kappa(Labels(1, "neg")[dim], Labels(2, "neg")[dim])

\* Two paired debates; on burden_fulfillment the annotators agree on AFF
\* throughout and on NEG no better than chance.
C19_Witness ==
    /\ call.fn = "compute_agreement" /\ ret # <<>>
    /\ ret[1].paired_debates = 2
    /\ Len(call.annotations) = 4
    /\ ret[1].dimension_agreement["burden_fulfillment"].aff_kappa = One
    /\ ret[1].dimension_agreement["burden_fulfillment"].neg_kappa = Zero
    /\ ret[1].dimension_agreement["clash_engagement"].aff_kappa # One

(***************************************************************************)
(* models.py: validation of DimensionScore and Annotation                  *)
(***************************************************************************)
\* sorted(names) for a list of strings: each string as often as it occurs.
RECURSIVE sorted_list_from(_, _)
sorted_list_from(names, order) ==
    IF order = <<>> THEN <<>>
    ELSE [k \in 1..Cardinality({i \in 1..Len(names) : names[i] = Head(order)})
             |-> Head(order)]
         \o sorted_list_from(names, Tail(order))

sorted_list(names) == sorted_list_from(names, StringOrder)

\* Field(ge=1, le=3) on both scores and the validator valid_dimension.
DimensionScore_errors(ds, loc) ==
    (IF ds.aff_score >= 1 /\ ds.aff_score <= 3 THEN {}
     ELSE {ValidationError(<<loc, "aff_score">>, "out of range")})
    \cup
    (IF ds.neg_score >= 1 /\ ds.neg_score <= 3 THEN {}
     ELSE {ValidationError(<<loc, "neg_score">>, "out of range")})
    \cup
    (IF ds.dimension \in Range(ANNOTATION_DIMENSIONS) THEN {}
     ELSE {ValidationError(<<loc, "dimension">>, "Unknown dimension")})

\* Faulty variant: only the number of scores is checked.
exactly_five_dimensions_count_only(v) ==
    IF Len(v) # 5
    THEN {ValidationError(<<"dimension_scores">>, "Must have exactly 5 dimension scores")}
    ELSE {}

exactly_five_dimensions(v) ==
    LET names == [k \in 1..Len(v) |-> v[k].dimension]
    IN  IF Len(v) # 5
        THEN {ValidationError(<<"dimension_scores">>, "Must have exactly 5 dimension scores")}
        ELSE IF sorted_list(names) # sorted_list(ANNOTATION_DIMENSIONS)
        THEN {ValidationError(<<"dimension_scores">>, "Dimensions must be exactly")}
        ELSE {}

\* Annotation(...): the items are validated first, the list validator runs
\* only over valid items; any error means no object is built.
Annotation_model_validate(d) ==
    LET v == d.dimension_scores
        item_errors == UNION {DimensionScore_errors(v[k], k) : k \in 1..Len(v)}
        errors == IF item_errors # {} THEN item_errors ELSE exactly_five_dimensions(v)
    IN  IF errors = {}
        THEN [status |-> "accepted",
              value |-> <<Annotation(d.debate_id, d.annotator_id, d.winner, v)>>,
              errors |-> {}]
        ELSE [status |-> "rejected", value |-> <<>>, errors |-> errors]

DimensionNames == Range(ANNOTATION_DIMENSIONS) \cup {"made_up_dimension"}

\* The dimension_scores lists validated: every list of at most MaxScores
\* names with valid scores, and the rubric list with every pair of scores
\* in 0..4 at one position.
ScoreLists ==
    UNION {[1..n -> {DimensionScore(name, 2, 1) : name \in DimensionNames}] :
           n \in 0..MaxScores}
    \cup
    {[k \in 1..5 |-> IF k = p THEN DimensionScore(ANNOTATION_DIMENSIONS[k], a, b)
                              ELSE DimensionScore(ANNOTATION_DIMENSIONS[k], 2, 1)] :
        p \in 1..5, a \in 0..4, b \in 0..4}

AnnotationCalls ==
    [fn : {"Annotation"}, debate_id : {"d1"}, annotator_id : {"SP"}, winner : {"aff"},
     dimension_scores : ScoreLists]

ValidateAnnotation ==
    /\ call.fn = "Annotation" /\ ret = <<>>
    /\ ret' = <<Annotation_model_validate(call)>>
    /\ UNCHANGED <<call, modelVars, genVars, voiceVars, serviceVars>>

InitAnnotation ==
    /\ call \in AnnotationCalls
    /\ ret = <<>>
    /\ ModelsIdle /\ GenIdle /\ VoiceIdle /\ ServiceIdle
NextAnnotation == ValidateAnnotation
SpecAnnotation == InitAnnotation /\ [][NextAnnotation]_vars

(***************************************************************************)
(* C20: an Annotation is built exactly when its dimension_scores hold one  *)
(* DimensionScore for each of the five rubric dimensions, in any order,    *)
(* and nothing else, every score within 1..3; a missing, repeated or       *)
(* unknown dimension and a score outside 1..3 are rejected and no object   *)
(* is built.                                                               *)
(***************************************************************************)
C20_AnnotationDimensions ==
    (call.fn = "Annotation" /\ ret # <<>>) =>
        LET v == call.dimension_scores
            WellFormed ==
                /\ \A dim \in Range(ANNOTATION_DIMENSIONS) :
                       Cardinality({k \in 1..Len(v) : v[k].dimension = dim}) = 1
                /\ \A k \in 1..Len(v) :
                       /\ v[k].dimension \in Range(ANNOTATION_DIMENSIONS)
                       /\ v[k].aff_score \in 1..3
                       /\ v[k].neg_score \in 1..3
        IN  /\ ret[1].status = "accepted" <=> WellFormed
            /\ ret[1].status = "accepted" =>
                   /\ ret[1].value # <<>>
                   /\ ret[1].value[1].dimension_scores = v
            /\ ret[1].status # "accepted" =>
                   ret[1].status = "rejected" /\ ret[1].value = <<>> /\ ret[1].errors # {}

\* The five dimensions in reverse order are accepted.
C20_Witness ==
    /\ call.fn = "Annotation" /\ ret # <<>>
    /\ Len(call.dimension_scores) = 5
    /\ \A k \in 1..5 : call.dimension_scores[k].dimension = ANNOTATION_DIMENSIONS[6 - k]
    /\ ret[1].status = "accepted"

(***************************************************************************)
(* compile.py: compile_to_jsonl                                            *)
(***************************************************************************)
\* The loop over the sorted files: each is validated and dumped on one
\* line; a file that does not validate raises, the lines written so far
\* stay in the (already truncated) output file.
RECURSIVE compile_loop(_, _, _)
compile_loop(dir, names, lines) ==
    IF names = <<>>
    THEN [status |-> "returned", count |-> Len(lines), out |-> <<lines>>]
    ELSE LET v == Debate_model_validate(dir[Head(names)])
         IN  IF v.status = "accepted"
             THEN compile_loop(dir, Tail(names),
                               Append(lines, model_dump_json(v.value[1])))
             ELSE [status |-> "raised", count |-> Len(lines), out |-> <<lines>>]

\* Faulty variant: the output file is opened before the directory is
\* found empty.
compile_to_jsonl_opens_first(dir, out) ==
    LET names == sorted(DOMAIN dir)
    IN  compile_loop(dir, names, <<>>)

\* compile_to_jsonl(input_dir, output_path), out the output file before.
compile_to_jsonl(dir, out) ==
    LET names == sorted(DOMAIN dir)
    IN  IF names = <<>>
        THEN [status |-> "returned", count |-> 0, out |-> out]
        ELSE compile_loop(dir, names, <<>>)

CorpusMeta(c) ==
    [debate_id |-> "d1", resolution |-> <<"Ban cars">>, category |-> "policy",
     aff_model |-> AFF_CONFIG, neg_model |-> NEG_CONFIG,
     constraint |-> c, is_control |-> (c.type = None)]

\* The files of a corpus directory: a control debate, two constrained
\* debates and a document of three turns.
CorpusDocs ==
    {[metadata |-> CorpusMeta(c), turns |-> PlanTurns] :
        c \in {ConstraintInfo(None, None), ConstraintInfo("weak_evidence", "aff"),
               ConstraintInfo("logical_gaps", "neg")}}
    \cup {[metadata |-> CorpusMeta(ConstraintInfo(None, None)),
           turns |-> SubSeq(PlanTurns, 1, 3)]}

CorpusNames == {"d1", "d2", "d3"}

Directories == UNION {[names -> CorpusDocs] : names \in SUBSET CorpusNames}

CompileToJsonl ==
    /\ call.fn = "compile_to_jsonl" /\ ret = <<>>
    /\ LET r == compile_to_jsonl(files, jsonl)
       IN  /\ jsonl' = r.out
           /\ ret' = <<[status |-> r.status, count |-> r.count]>>
    /\ UNCHANGED <<call, modelVars, pc, batch, args, metadata, turns, inflight, calls,
                   result, files, written, voiceVars, audio, synth, response,
                   annotations_dir, user_data, conv>>

\* One call of compile_to_jsonl on any directory, the output file absent
\* or left by an earlier run.
InitCompile ==
    /\ files \in Directories
    /\ jsonl \in {<<>>, << <<"old line">> >>}
    /\ call = [fn |-> "compile_to_jsonl", output_before |-> jsonl]
    /\ ret = <<>>
    /\ pc = "idle" /\ batch = NoBatch /\ GenLocalsIdle /\ written = <<>>
    /\ ModelsIdle /\ VoiceIdle
    /\ audio = NoFiles /\ synth = <<>> /\ response = NoResponse
    /\ annotations_dir = NoFiles /\ user_data = NoUserData /\ conv = "END"
NextCompile == CompileToJsonl
SpecCompile == InitCompile /\ [][NextCompile]_vars

(***************************************************************************)
(* C21: over a directory whose files are debates, compile_to_jsonl writes  *)
(* one line per file, the k-th line being the debate of the k-th file in   *)
(* ascending order of file name, and returns the number of files; over a   *)
(* directory without files it returns 0 and leaves the output file as it   *)
(* was, absent if it was absent.                                           *)
(***************************************************************************)
\* Position of a name in Python's order of strings.
NameRank(name) == CHOOSE k \in 1..Len(StringOrder) : StringOrder[k] = name

C21_OneLinePerFile ==
    (/\ call.fn = "compile_to_jsonl" /\ ret # <<>>
     /\ \A f \in DOMAIN files : Debate_model_validate(files[f]).status = "accepted") =>
        /\ ret[1].status = "returned"
        /\ ret[1].count = Cardinality(DOMAIN files)
        /\ DOMAIN files = {} => jsonl = call.output_before
        /\ DOMAIN files # {} =>
              /\ jsonl # <<>>
              /\ Len(jsonl[1]) = Cardinality(DOMAIN files)
              /\ \A f \in DOMAIN files :
                    LET k == Cardinality({g \in DOMAIN files : NameRank(g) <= NameRank(f)})
                    IN  jsonl[1][k] = model_dump_json(files[f])

\* Three files with three different debates, compiled over an old output.
C21_Witness ==
    /\ call.fn = "compile_to_jsonl" /\ ret = <<[status |-> "returned", count |-> 3]>>
    /\ call.output_before # <<>>
    /\ Cardinality({files[f] : f \in DOMAIN files}) = 3
    /\ Len(jsonl[1]) = 3

(***************************************************************************)
(* C22: every debate of a batch is written to a file of its own and no     *)
(* file on disk is overwritten: after k debates have been written the      *)
(* output directory holds k files, each still holding the debate that      *)
(* was written to it.                                                      *)
(***************************************************************************)
C22_DistinctFiles ==
    batch.active =>
        /\ Cardinality(DOMAIN files) = Len(written)
        /\ \A i, j \in 1..Len(written) : i # j => written[i] # written[j]

(***************************************************************************)
(* C26: the user prompt of each of the four completion calls holds the     *)
(* stance reminder naming the side that speaks (AFFIRMATIVE on the AFF     *)
(* turns, NEGATIVE on the NEG turns) and ends with the role instruction    *)
(* filled in with that side's display name.                                *)
(***************************************************************************)
C26_StanceReminder ==
    \A k \in 1..Len(calls) :
        LET side_name == SIDE_LABELS[calls[k].speaker][1]
        IN  /\ Contains(calls[k].user_prompt, <<"You are the ", side_name>>)
            /\ IsSuffix(format(TURN_INSTRUCTIONS[calls[k].role], side_name),
                        calls[k].user_prompt)

(***************************************************************************)
(* C30: compute_agreement returns the same report for every permutation    *)
(* of its annotation list; in particular the report does not depend on     *)
(* which of the two annotations of a debate is listed first.               *)
(***************************************************************************)
C30_PermutationInvariant ==
    (call.fn = "compute_agreement" /\ ret # <<>>) =>
        \A p \in Permutations(1..Len(call.annotations)) :
            compute_agreement([k \in 1..Len(call.annotations) |-> call.annotations[p[k]]])
                = ret[1]


(***************************************************************************)
(* models.py: JSON encoding and decoding of Debate and Annotation          *)
(***************************************************************************)
\* JSON values: a string, null, true/false or a number; objects are records
\* of JSON values and arrays are sequences of them.
json_string(s) == [t |-> "string", v |-> s]
json_null == [t |-> "null"]
json_bool(b) == [t |-> IF b THEN "true" ELSE "false"]
json_number(x) == [t |-> "number", v |-> x]

\* A datetime: date and wall-clock time, the six digits of the microsecond,
\* tzinfo (None: naive).
datetime(date, time, microsecond, tzinfo) ==
    [date |-> date, time |-> time, microsecond |-> microsecond, tzinfo |-> tzinfo]

\* Faulty variant: the zone designator is left out.
dump_datetime_naive(dt) ==
    json_string(<<dt.date, "T", dt.time>>
                \o (IF dt.microsecond = "000000" THEN <<>> ELSE <<".", dt.microsecond>>))

\* A datetime field written to JSON: ISO 8601, the fraction only when the
\* microsecond is not zero, "Z" for UTC.
dump_datetime(dt) ==
    json_string(<<dt.date, "T", dt.time>>
                \o (IF dt.microsecond = "000000" THEN <<>> ELSE <<".", dt.microsecond>>)
                \o (IF dt.tzinfo = None THEN <<>> ELSE <<"Z">>))

\* Each decoder yields <<value>> or <<>> when the JSON value does not fit
\* the declared type of the field.
validate_str(j) == IF j.t = "string" THEN <<j.v>> ELSE <<>>
validate_enum(j, members) ==
    IF j.t = "string" THEN (IF j.v \in members THEN <<j.v>> ELSE <<>>) ELSE <<>>
validate_optional_enum(j, members) ==
    IF j.t = "null" THEN <<None>> ELSE validate_enum(j, members)
validate_bool(j) ==
    IF j.t = "true" THEN <<TRUE>> ELSE IF j.t = "false" THEN <<FALSE>> ELSE <<>>
validate_number(j) == IF j.t = "number" THEN <<j.v>> ELSE <<>>
validate_datetime(j) ==
    IF j.t # "string" THEN <<>>
    ELSE LET s == j.v
             tz == IF s[Len(s)] = "Z" THEN "UTC" ELSE None
             body == IF tz = None THEN s ELSE SubSeq(s, 1, Len(s) - 1)
         IN  IF Len(body) = 3 /\ body[2] = "T"
             THEN <<datetime(body[1], body[3], "000000", tz)>>
             ELSE IF Len(body) = 5 /\ body[2] = "T" /\ body[4] = "."
             THEN <<datetime(body[1], body[3], body[5], tz)>>
             ELSE <<>>

DebateCategory == {"policy", "values", "empirical"}

ModelConfig(provider, model_name, temperature) ==
    [provider |-> provider, model_name |-> model_name, temperature |-> temperature]

ModelConfig_dump_json(m) ==
    [provider |-> json_string(m.provider), model_name |-> json_string(m.model_name),
     temperature |-> json_number(m.temperature)]

ModelConfig_validate_json(j) ==
    LET p == validate_str(j.provider)
        n == validate_str(j.model_name)
        t == validate_number(j.temperature)
    IN  IF p = <<>> \/ n = <<>> \/ t = <<>> THEN <<>>
        ELSE <<ModelConfig(p[1], n[1], t[1])>>

\* Debate.model_dump_json(): every declared field of Debate, DebateMetadata,
\* ModelConfig, ConstraintInfo and Turn as its JSON value.
Debate_dump_json(d) ==
    [metadata |->
        [debate_id |-> json_string(d.metadata.debate_id),
         resolution |-> json_string(d.metadata.resolution),
         category |-> json_string(d.metadata.category),
         aff_model |-> ModelConfig_dump_json(d.metadata.aff_model),
         neg_model |-> ModelConfig_dump_json(d.metadata.neg_model),
         constraint |->
            [type |-> IF d.metadata.constraint.type = None THEN json_null
                      ELSE json_string(d.metadata.constraint.type),
             target_side |-> IF d.metadata.constraint.target_side = None THEN json_null
                             ELSE json_string(d.metadata.constraint.target_side)],
         is_control |-> json_bool(d.metadata.is_control),
         generated_at |-> dump_datetime(d.metadata.generated_at),
         generator_version |-> json_string(d.metadata.generator_version)],
     turns |-> [k \in 1..Len(d.turns) |->
                  [speaker |-> json_string(d.turns[k].speaker),
                   role |-> json_string(d.turns[k].role),
                   text |-> json_string(d.turns[k].text)]]]

Rejected == [status |-> "rejected", value |-> <<>>]

\* Debate.model_validate_json(text): every field is decoded by its declared
\* type, then the validators run; the object exists iff nothing failed.
Debate_validate_json(j) ==
    LET m == j.metadata
        id == validate_str(m.debate_id)
        res == validate_str(m.resolution)
        cat == validate_enum(m.category, DebateCategory)
        am == ModelConfig_validate_json(m.aff_model)
        nm == ModelConfig_validate_json(m.neg_model)
        ct == validate_optional_enum(m.constraint.type, WeaknessType)
        cs == validate_optional_enum(m.constraint.target_side, Side)
        ic == validate_bool(m.is_control)
        ga == validate_datetime(m.generated_at)
        gv == validate_str(m.generator_version)
        ts == [k \in 1..Len(j.turns) |->
                 <<validate_enum(j.turns[k].speaker, Side),
                   validate_enum(j.turns[k].role, TurnRole),
                   validate_str(j.turns[k].text)>>]
    IN  IF \/ <<>> \in {id, res, cat, am, nm, ct, cs, ic, ga, gv}
           \/ \E k \in 1..Len(ts) : <<>> \in Range(ts[k])
           \/ exactly_four_turns(j.turns) # {}
        THEN Rejected
        ELSE [status |-> "accepted",
              value |-> <<[metadata |->
                             [debate_id |-> id[1], resolution |-> res[1],
                              category |-> cat[1], aff_model |-> am[1],
                              neg_model |-> nm[1],
                              constraint |-> [type |-> ct[1], target_side |-> cs[1]],
                              is_control |-> ic[1], generated_at |-> ga[1],
                              generator_version |-> gv[1]],
                           turns |-> [k \in 1..Len(ts) |->
                                        Turn(ts[k][1][1], ts[k][2][1], ts[k][3][1])]]>>]

\* Annotation.model_dump_json()
Annotation_dump_json(a) ==
    [debate_id |-> json_string(a.debate_id),
     annotator_id |-> json_string(a.annotator_id),
     winner |-> json_string(a.winner),
     winner_justification |-> json_string(a.winner_justification),
     dimension_scores |->
        [k \in 1..Len(a.dimension_scores) |->
            [dimension |-> json_string(a.dimension_scores[k].dimension),
             aff_score |-> json_number(a.dimension_scores[k].aff_score),
             neg_score |-> json_number(a.dimension_scores[k].neg_score)]],
     annotated_at |-> dump_datetime(a.annotated_at),
     annotation_version |-> json_string(a.annotation_version)]

\* The fields of Annotation without a default.
Annotation_required ==
    {"debate_id", "annotator_id", "winner", "winner_justification",
     "dimension_scores", "annotated_at"}

\* Annotation.model_validate_json(text): a missing required field is an
\* error; then every field is decoded by its type and the validators run.
Annotation_validate_json(j) ==
    IF ~(Annotation_required \subseteq DOMAIN j) THEN Rejected
    ELSE
    LET id == validate_str(j.debate_id)
        an == validate_str(j.annotator_id)
        w == validate_enum(j.winner, Side)
        wj == validate_str(j.winner_justification)
        at == validate_datetime(j.annotated_at)
        av == IF "annotation_version" \in DOMAIN j
              THEN validate_str(j.annotation_version) ELSE <<"0.1.0">>
        ds == [k \in 1..Len(j.dimension_scores) |->
                 <<validate_str(j.dimension_scores[k].dimension),
                   validate_number(j.dimension_scores[k].aff_score),
                   validate_number(j.dimension_scores[k].neg_score)>>]
    IN  IF \/ <<>> \in {id, an, w, wj, at, av}
           \/ \E k \in 1..Len(ds) : <<>> \in Range(ds[k])
        THEN Rejected
        ELSE LET v == [k \in 1..Len(ds) |->
                         DimensionScore(ds[k][1][1], ds[k][2][1], ds[k][3][1])]
                 checked == Annotation_model_validate(Annotation(id[1], an[1], w[1], v))
             IN  IF checked.status # "accepted" THEN Rejected
                 ELSE [status |-> "accepted",
                       value |-> <<[debate_id |-> id[1], annotator_id |-> an[1],
                                    winner |-> w[1], winner_justification |-> wj[1],
                                    dimension_scores |-> v, annotated_at |-> at[1],
                                    annotation_version |-> av[1]]>>]

\* The instants tried: aware UTC (what datetime.now(timezone.utc) gives) and
\* naive, with and without a fraction of a second.
Datetimes ==
    {datetime("2026-01-15", "12:00:00", us, tz) : us \in {"000000", "250000"}, tz \in {None, "UTC"}}

\* Valid Debate objects: every category, every constraint the model accepts,
\* either control flag, the planned four turns.
RoundtripDebates ==
    {[metadata |->
        [debate_id |-> "d1", resolution |-> <<"Ban cars">>, category |-> cat,
         aff_model |-> ModelConfig("anthropic", "m-aff", Rat(7, 10)),
         neg_model |-> ModelConfig("openai", "m-neg", Rat(1, 1)),
         constraint |-> [type |-> ty, target_side |-> sd],
         is_control |-> ic, generated_at |-> ga, generator_version |-> "0.1.0"],
      turns |-> PlanTurns] :
        cat \in DebateCategory, ty \in WeaknessType \cup {None}, sd \in Side \cup {None},
        ic \in BOOLEAN, ga \in {dt \in Datetimes : dt.tzinfo = "UTC"}}

\* Valid Annotation objects: the rubric in declared or reversed order, every
\* pair of scores in 1..3 at the first position.
RoundtripAnnotations ==
    {[debate_id |-> "d1", annotator_id |-> "SP", winner |-> w,
      winner_justification |-> <<"Better clash">>,
      dimension_scores |->
        [k \in 1..5 |->
            DimensionScore(ANNOTATION_DIMENSIONS[IF rev THEN 6 - k ELSE k],
                           IF k = 1 THEN a ELSE 2, IF k = 1 THEN b ELSE 1)],
      annotated_at |-> at, annotation_version |-> "0.1.0"] :
        w \in Side, rev \in BOOLEAN, a \in 1..3, b \in 1..3, at \in Datetimes}

RoundtripCalls ==
    [fn : {"Debate.roundtrip"}, obj : RoundtripDebates]
    \cup [fn : {"Annotation.roundtrip"}, obj : RoundtripAnnotations]

\* json_str = debate.model_dump_json()
DebateDumpJson ==
    /\ call.fn = "Debate.roundtrip" /\ ret = <<>>
    /\ ret' = <<Debate_dump_json(call.obj)>>
    /\ UNCHANGED <<call, modelVars, genVars, voiceVars, serviceVars>>

\* restored = Debate.model_validate_json(json_str)
DebateValidateJson ==
    /\ call.fn = "Debate.roundtrip" /\ Len(ret) = 1
    /\ ret' = ret \o <<Debate_validate_json(ret[1])>>
    /\ UNCHANGED <<call, modelVars, genVars, voiceVars, serviceVars>>

AnnotationDumpJson ==
    /\ call.fn = "Annotation.roundtrip" /\ ret = <<>>
    /\ ret' = <<Annotation_dump_json(call.obj)>>
    /\ UNCHANGED <<call, modelVars, genVars, voiceVars, serviceVars>>

AnnotationValidateJson ==
    /\ call.fn = "Annotation.roundtrip" /\ Len(ret) = 1
    /\ ret' = ret \o <<Annotation_validate_json(ret[1])>>
    /\ UNCHANGED <<call, modelVars, genVars, voiceVars, serviceVars>>

InitRoundtrip ==
    /\ call \in RoundtripCalls
    /\ ret = <<>>
    /\ ModelsIdle /\ GenIdle /\ VoiceIdle /\ ServiceIdle
NextRoundtrip ==
    DebateDumpJson \/ DebateValidateJson \/ AnnotationDumpJson \/ AnnotationValidateJson
SpecRoundtrip == InitRoundtrip /\ [][NextRoundtrip]_vars

MaxSynth == 2

\* File contents: some MP3 bytes, or no bytes at all.
MP3 == <<"ID3">>
NoBytes == <<>>

\* What one call of the speech service can do: return audio, return an
\* empty body, or fail.
ServiceOutcomes == {"audio", "empty", "raise"}

AUDIO_DIR == "output/audio"

\* AUDIO_DIR / debate_id / f"{debate_id}_turn_{turn_index}_{speaker}.mp3"
cache_path(debate_id, turn_index, speaker) ==
    <<AUDIO_DIR, debate_id, debate_id, "_turn_", str(turn_index), "_", speaker, ".mp3">>

\* debate_dir / f"turn_{i}_{speaker}.mp3"
mp3_path(output_dir, debate_id, i, speaker) ==
    <<output_dir, debate_id, "turn_", str(i), "_", speaker, ".mp3">>

\* POST /api/tts with a JSON body; "" stands for an absent field.
tts_endpoint(body, outcome) ==
    LET p == cache_path(body.debate_id, body.turn_index, body.speaker)
        pair == pick_voice_pair(body.debate_id, None)
        voice == IF body.speaker = "aff" THEN pair[1] ELSE pair[2]
        same == [audio |-> audio, synth |-> synth]
    IN  IF body.debate_id = "" \/ body.speaker = "" \/ body.text = <<>>
        THEN same @@ [response |-> [handler |-> "tts", status |-> 400]]
        ELSE IF p \in DOMAIN audio
        THEN same @@ [response |-> [handler |-> "tts", status |-> 200,
                                    url |-> p, cached |-> TRUE]]
        ELSE IF pair = <<ValueError>>
        THEN same @@ [response |-> [handler |-> "tts", status |-> 500]]
        ELSE IF outcome = "raise"
        THEN [audio |-> audio,
              synth |-> Append(synth, [text |-> body.text, voice |-> voice]),
              response |-> [handler |-> "tts", status |-> 502, url |-> p]]
        ELSE [audio |-> write_text(audio, p, IF outcome = "audio" THEN MP3 ELSE NoBytes),
              synth |-> Append(synth, [text |-> body.text, voice |-> voice]),
              response |-> [handler |-> "tts", status |-> 200,
                            url |-> p, cached |-> FALSE]]

\* The loop of synthesize_debate from turn i on; a failing service call
\* leaves the files written so far and raises.
RECURSIVE synthesize_debate_loop(_, _, _, _, _, _, _)
synthesize_debate_loop(i, ts, debate_id, pair, acc, outcomes, output_dir) ==
    IF i > Len(ts) THEN acc
    ELSE LET speaker == ts[i].speaker
             voice == IF speaker = "aff" THEN pair[1] ELSE pair[2]
             p == mp3_path(output_dir, debate_id, i, speaker)
             called == Append(acc.synth, [text |-> ts[i].text, voice |-> voice])
         IN  IF p \in DOMAIN acc.audio /\ acc.audio[p] # NoBytes
             THEN synthesize_debate_loop(i + 1, ts, debate_id, pair,
                      [acc EXCEPT !.result = @ @@ (i :> p)], outcomes, output_dir)
             ELSE IF outcomes[i] = "raise"
             THEN [acc EXCEPT !.synth = called, !.raised = TRUE]
             ELSE synthesize_debate_loop(i + 1, ts, debate_id, pair,
                      [audio |-> write_text(acc.audio, p,
                                    IF outcomes[i] = "audio" THEN MP3 ELSE NoBytes),
                       synth |-> called,
                       result |-> acc.result @@ (i :> p),
                       raised |-> FALSE], outcomes, output_dir)

\* synthesize_debate(debate, output_dir)
synthesize_debate(debate, output_dir, outcomes) ==
    LET same == [audio |-> audio, synth |-> synth]
        raise == same @@ [response |-> [handler |-> "synthesize_debate",
                                         raised |-> TRUE]]
        pair == pick_voice_pair(debate.metadata.debate_id, get_provider)
    IN  IF Len(debate.turns) # 4 THEN raise
        ELSE IF get_provider = ValueError THEN raise
        ELSE LET r == synthesize_debate_loop(1, debate.turns, debate.metadata.debate_id,
                           pair, [audio |-> audio, synth |-> synth,
                                  result |-> <<>>, raised |-> FALSE],
                           outcomes, output_dir)
             IN  [audio |-> r.audio, synth |-> r.synth,
                  response |-> [handler |-> "synthesize_debate", raised |-> r.raised,
                                result |-> r.result]]

TtsBodies ==
    [debate_id : {"", "d1"}, turn_index : {0, 1}, speaker : {"aff", "neg"},
     text : {<<>>, <<"speech">>}]

TtsEndpoint ==
    /\ Len(synth) < MaxSynth
    /\ \E body \in TtsBodies, outcome \in ServiceOutcomes :
         LET r == tts_endpoint(body, outcome)
         IN  audio' = r.audio /\ synth' = r.synth /\ response' = r.response
    /\ UNCHANGED <<jsonl, annotations_dir, user_data, conv,
                   modelVars, promptVars, genVars, voiceVars>>

SynthesizeDebate ==
    /\ Len(synth) < MaxSynth
    /\ \E ts \in {PlanTurns, SubSeq(PlanTurns, 1, 3)},
          outcomes \in [1..4 -> ServiceOutcomes] :
         LET r == synthesize_debate(
                      [metadata |-> CorpusMeta([type |-> None, target_side |-> None]),
                       turns |-> ts],
                      AUDIO_DIR, outcomes)
         IN  audio' = r.audio /\ synth' = r.synth /\ response' = r.response
    /\ UNCHANGED <<jsonl, annotations_dir, user_data, conv,
                   modelVars, promptVars, genVars, voiceVars>>

\* The cache directory as a run finds it: empty, or holding one turn's file
\* left complete or empty by an earlier process.
InitTts ==
    /\ env \in {{}, {"OPENAI_API_KEY"}, {"ELEVENLABS_API_KEY"}}
    /\ picks = <<>>
    /\ audio \in {NoFiles}
                 \cup {(cache_path("d1", 1, "aff") :> b) : b \in {MP3, NoBytes}}
                 \cup {(mp3_path(AUDIO_DIR, "d1", 1, "aff") :> b) : b \in {MP3, NoBytes}}
    /\ synth = <<>> /\ response = NoResponse
    /\ jsonl = <<>> /\ annotations_dir = NoFiles /\ user_data = NoUserData /\ conv = "END"
    /\ ModelsIdle /\ PromptsIdle /\ GenIdle
NextTts == TtsEndpoint \/ SynthesizeDebate
SpecTts == InitTts /\ [][NextTts]_vars

\* C23: a request for a turn's audio calls the speech service exactly when
\* the cache holds no non-empty file for that (debate, turn, speaker); a
\* non-empty cached file is returned without synthesis, and a missing or empty
\* one is synthesized again and never handed out as the audio.
C23_CacheLookup ==
    [][(response'.handler = "tts" /\ response'.status \in {200, 502}) =>
          LET p == response'.url
              usable == p \in DOMAIN audio /\ audio[p] # NoBytes
          IN  /\ (synth' # synth) <=> ~usable
              /\ response'.status = 200 => audio'[p] # NoBytes]_vars


(***************************************************************************)
(* server.py / telegram_judging.py: annotation files and their lookups     *)
(***************************************************************************)
\* Identifiers and file names are sequences of tokens, "_" and ".json"
\* being tokens of their own.
\* Debate identifiers (file stems of the debates directory) and annotator
\* names; both are free strings and may contain "_".
SavedDebateIds == {<<"d1">>, <<"d1", "_", "A">>, <<"d2">>}
AnnotatorNames == {<<"A">>, <<"B">>, <<"A", "_", "B">>}

\* Every file name of the model in the order of Python's string comparison
\* ("." < "A" < "B" < "_" < "d").
FileOrder ==
    << <<"d1", ".json">>, <<"d1", "_", "A", ".json">>,
       <<"d1", "_", "A", "_", "A", ".json">>,
       <<"d1", "_", "A", "_", "A", "_", "B", ".json">>,
       <<"d1", "_", "A", "_", "B", ".json">>, <<"d1", "_", "B", ".json">>,
       <<"d2", ".json">>, <<"d2", "_", "A", ".json">>,
       <<"d2", "_", "A", "_", "B", ".json">>, <<"d2", "_", "B", ".json">> >>

\* sorted(dir.glob("*.json"))
sorted_glob(dir) == LET in(name) == name \in DOMAIN dir IN SelectSeq(FileOrder, in)

\* Path.stem of a *.json name
stem(name) == SubSeq(name, 1, Len(name) - 1)

\* f"{debate_id}_{annotator_id}.json"
annotation_filename(debate_id, annotator_id) ==
    debate_id \o <<"_">> \o annotator_id \o <<".json">>

\* s.rsplit("_", 1): split at the last underscore, if there is one.
rsplit(s) ==
    LET at == Occurrences(s, "_")
    IN  IF at = {} THEN <<s>>
        ELSE LET k == CHOOSE x \in at : \A y \in at : y <= x
             IN  <<SubSeq(s, 1, k - 1), SubSeq(s, k + 1, Len(s))>>

\* s.removesuffix(suffix)
removesuffix(s, suffix) ==
    IF IsSuffix(suffix, s) THEN SubSeq(s, 1, Len(s) - Len(suffix)) ELSE s

\* s.replace(old, ""): every occurrence of old is removed, left to right.
RECURSIVE replace(_, _)
replace(s, old) ==
    IF s = <<>> THEN <<>>
    ELSE IF IsPrefix(old, s) THEN replace(SubSeq(s, Len(old) + 1, Len(s)), old)
    ELSE <<Head(s)>> \o replace(Tail(s), old)

\* result.setdefault(debate_id, []).append(annotator_id) for each name
RECURSIVE list_annotations_loop(_, _)
list_annotations_loop(names, acc) ==
    IF names = <<>> THEN acc
    ELSE LET parts == rsplit(stem(Head(names)))
         IN  IF Len(parts) # 2 THEN list_annotations_loop(Tail(names), acc)
             ELSE list_annotations_loop(Tail(names),
                    IF parts[1] \in DOMAIN acc
                    THEN [acc EXCEPT ![parts[1]] = Append(@, parts[2])]
                    ELSE acc @@ (parts[1] :> <<parts[2]>>))

\* GET /api/annotations
list_annotations == list_annotations_loop(sorted_glob(annotations_dir), <<>>)

\* annotations_dir.glob(f"*_{annotator}.json")
glob_annotator(annotator) ==
    {name \in DOMAIN annotations_dir : IsSuffix(<<"_">> \o annotator \o <<".json">>, name)}

\* GET /api/debates?annotator=X: annotated_ids, then the names left.
annotated_ids(annotator) ==
    {removesuffix(stem(name), <<"_">> \o annotator) : name \in glob_annotator(annotator)}

list_debates(annotator) ==
    LET in(name) ==
            /\ name \in DOMAIN files
            /\ (annotator # <<>> => stem(name) \notin annotated_ids(annotator))
    IN  SelectSeq(FileOrder, in)

\* TelegramJudgingSession.get_next_debate: existing_annotations, then the
\* first debate file whose stem is not among them.
existing_annotations(annotator_id) ==
    {replace(stem(name), <<"_">> \o annotator_id) : name \in glob_annotator(annotator_id)}

get_next_debate(annotator_id) ==
    LET in(name) == name \in DOMAIN files
                    /\ stem(name) \notin existing_annotations(annotator_id)
        left == SelectSeq(FileOrder, in)
    IN  IF left = <<>> THEN <<>> ELSE <<stem(left[1])>>

\* POST /api/annotations
save_annotation(body) ==
    LET a == Annotation_validate_json(body)
        filename == annotation_filename(a.value[1].debate_id, a.value[1].annotator_id)
    IN  IF a.status # "accepted"
        THEN [annotations_dir |-> annotations_dir,
              response |-> [handler |-> "save_annotation", status |-> 422]]
        ELSE [annotations_dir |->
                  write_text(annotations_dir, filename, Annotation_dump_json(a.value[1])),
              response |-> [handler |-> "save_annotation", status |-> 200,
                            saved |-> filename]]

AnnotationBody(debate_id, annotator_id, winner, scores) ==
    Annotation_dump_json(
        [debate_id |-> debate_id, annotator_id |-> annotator_id, winner |-> winner,
         winner_justification |-> <<"Better clash">>,
         dimension_scores |-> scores,
         annotated_at |-> datetime("2026-01-15", "12:00:00", "000000", "UTC"),
         annotation_version |-> "0.1.0"])

RubricScores == [k \in 1..5 |-> DimensionScore(ANNOTATION_DIMENSIONS[k], 2, 1)]

SaveAnnotation ==
    /\ \E d \in SavedDebateIds, a \in AnnotatorNames, v \in {RubricScores, <<>>} :
         LET r == save_annotation(AnnotationBody(d, a, "aff", v))
         IN  annotations_dir' = r.annotations_dir /\ response' = r.response
    /\ UNCHANGED <<jsonl, audio, synth, user_data, conv,
                   modelVars, promptVars, genVars, voiceVars>>

ListAnnotations ==
    /\ response' = [handler |-> "list_annotations", result |-> list_annotations]
    /\ UNCHANGED <<jsonl, audio, synth, annotations_dir, user_data, conv,
                   modelVars, promptVars, genVars, voiceVars>>

ListDebates ==
    /\ \E annotator \in AnnotatorNames \cup {<<>>} :
         response' = [handler |-> "list_debates", annotator |-> annotator,
                      files |-> list_debates(annotator)]
    /\ UNCHANGED <<jsonl, audio, synth, annotations_dir, user_data, conv,
                   modelVars, promptVars, genVars, voiceVars>>

\* get_next_debate of a fresh TelegramJudgingSession(annotator_id=...)
GetNextDebate ==
    /\ \E annotator_id \in AnnotatorNames :
         response' = [handler |-> "get_next_debate", annotator_id |-> annotator_id,
                      debate_id |-> get_next_debate(annotator_id)]
    /\ UNCHANGED <<jsonl, audio, synth, annotations_dir, user_data, conv,
                   modelVars, promptVars, genVars, voiceVars>>

\* The debates directory: one file per debate identifier.
DebatesDir ==
    [name \in {id \o <<".json">> : id \in SavedDebateIds} |->
        [metadata |-> CorpusMeta([type |-> None, target_side |-> None]),
         turns |-> PlanTurns]]

InitAnnotations ==
    /\ files = DebatesDir
    /\ pc = "idle" /\ batch = NoBatch /\ GenLocalsIdle /\ written = <<>>
    /\ ModelsIdle /\ PromptsIdle /\ VoiceIdle /\ ServiceIdle
NextAnnotations == SaveAnnotation \/ ListAnnotations \/ ListDebates \/ GetNextDebate
SpecAnnotations == InitAnnotations /\ [][NextAnnotations]_vars

\* The (debate_id, annotator_id) pairs of the annotations on disk.
SavedPairs ==
    {<<annotations_dir[name].debate_id.v, annotations_dir[name].annotator_id.v>> :
        name \in DOMAIN annotations_dir}

\* C24: the file name of an annotation identifies its (debate_id,
\* annotator_id): a file on disk can only be the file of the pair it was saved
\* for (different pairs get different file names), and the lookups
\* (list_annotations, list_debates?annotator=, get_next_debate) recover from
\* the names exactly the debate and annotator the annotations were saved with.
C24_FilenameIdentifiesPair ==
    /\ \A name \in DOMAIN annotations_dir, d \in SavedDebateIds, a \in AnnotatorNames :
          annotation_filename(d, a) = name =>
              <<d, a>> = <<annotations_dir[name].debate_id.v,
                           annotations_dir[name].annotator_id.v>>
    /\ UNION {{<<d, list_annotations[d][k]>> : k \in 1..Len(list_annotations[d])} :
                 d \in DOMAIN list_annotations} = SavedPairs
    /\ \A a \in AnnotatorNames :
          /\ annotated_ids(a) = {p[1] : p \in {q \in SavedPairs : q[2] = a}}
          /\ existing_annotations(a) = annotated_ids(a)


(***************************************************************************)
(* telegram_judging.py / telegram_bot.py: the judging conversation         *)
(***************************************************************************)
MaxStaleTaps == 1

\* The rubric keys of the bot, in the order their prompts are sent.
Dimension == <<"clash", "burden_of_proof", "rebuttal", "extension", "adaptation">>
ScoreValues == {1, 3}

\* dict[key] = val
setitem(dict, key, val) ==
    [k \in DOMAIN dict \cup {key} |-> IF k = key THEN val ELSE dict[k]]

\* dict.get(key, default)
get(dict, key, default) == IF key \in DOMAIN dict THEN dict[key] ELSE default

\* TelegramJudgingSession(annotator_id=...): <<>> is no current debate.
TelegramJudgingSession(annotator_id) ==
    [annotator_id |-> annotator_id, current_debate_id |-> <<>>, scores |-> <<>>,
     winner |-> None, justification |-> <<>>]

\* _get_session: always a new session under the stored name.
_get_session(ud) == TelegramJudgingSession(get(ud, "annotator_name", <<"anonymous">>))

\* Ten prompts: each dimension for AFF, then for NEG.
get_scoring_prompts(debate_id) ==
    [k \in 1..(2 * Len(Dimension)) |->
        [debate_id |-> debate_id, dimension |-> Dimension[(k + 1) \div 2],
         side |-> IF k % 2 = 1 THEN "AFF" ELSE "NEG"]]

\* The session methods give <<session>>, or <<>> when they raise ValueError.
record_score(session, debate_id, dimension, side, value) ==
    IF debate_id # session.current_debate_id THEN <<>>
    ELSE <<[session EXCEPT !.scores =
                setitem(@, dimension, setitem(get(@, dimension, <<>>), side, value))]>>

record_winner(session, debate_id, side) ==
    IF debate_id # session.current_debate_id THEN <<>>
    ELSE <<[session EXCEPT !.winner = side]>>

record_justification(session, debate_id, text) ==
    IF debate_id # session.current_debate_id THEN <<>>
    ELSE <<[session EXCEPT !.justification = text]>>

\* The dict that TelegramJudgingSession.save_annotation dumps, or <<>> when
\* it raises.
annotation_dict(session, debate_id) ==
    IF debate_id # session.current_debate_id \/ session.winner = None THEN <<>>
    ELSE <<[debate_id |-> json_string(debate_id),
            annotator |-> json_string(session.annotator_id),
            timestamp |-> dump_datetime(datetime("2026-01-15", "12:00:00", "250000", "UTC")),
            scores |-> [dim \in DOMAIN session.scores |->
                          [AFF |-> json_number(get(session.scores[dim], "AFF", 0)),
                           NEG |-> json_number(get(session.scores[dim], "NEG", 0))]],
            winner |-> json_string(session.winner),
            justification |-> json_string(session.justification)]>>

Reply(handler, text) == [handler |-> handler, text |-> text]

\* session.get_next_debate() and what start_debate, set_name and next_debate
\* do with its result; prepare_audio reads debate["debate_id"], which a
\* Debate document does not have, so _send_debate sends the transcript.
send_next_debate(ud, session, handler) ==
    LET next == get_next_debate(session.annotator_id)
    IN  IF next = <<>>
        THEN [user_data |-> setitem(ud, "session", session), conv |-> "END",
              response |-> Reply(handler, "All debates have been annotated!")]
        ELSE LET loaded == [session EXCEPT !.current_debate_id = next[1],
                                           !.scores = <<>>, !.winner = None,
                                           !.justification = <<>>]
                 debate == files[next[1] \o <<".json">>]
             IN  [user_data |-> setitem(setitem(ud, "session", loaded),
                                        "debate_id", debate.metadata.debate_id),
                  conv |-> "AWAITING_READY",
                  response |-> Reply(handler, "Ready to score?")]

BotUnchanged ==
    UNCHANGED <<jsonl, audio, synth, modelVars, promptVars, genVars, voiceVars>>

\* /debate, the entry point of the conversation
StartDebate ==
    /\ conv = "END"
    /\ \E allowed \in BOOLEAN :
         IF ~allowed
         THEN /\ response' = Reply("start_debate", "")
              /\ UNCHANGED <<user_data, conv>>
         ELSE IF "annotator_name" \notin DOMAIN user_data
         THEN /\ conv' = "ASK_NAME"
              /\ response' = Reply("start_debate", "What name should I use?")
              /\ UNCHANGED user_data
         ELSE LET r == send_next_debate(user_data, _get_session(user_data),
                                        "start_debate")
              IN  user_data' = r.user_data /\ conv' = r.conv /\ response' = r.response
    /\ UNCHANGED annotations_dir /\ BotUnchanged

\* A text message in ASK_NAME; <<>> is a blank or too long name.
SetName ==
    /\ conv = "ASK_NAME"
    /\ \E name \in {<<>>, <<"A">>} :
         IF name = <<>>
         THEN /\ response' = Reply("set_name", "Please enter a short name")
              /\ UNCHANGED <<user_data, conv>>
         ELSE LET named == setitem(user_data, "annotator_name", name)
                  r == send_next_debate(named, _get_session(named), "set_name")
              IN  user_data' = r.user_data /\ conv' = r.conv /\ response' = r.response
    /\ UNCHANGED annotations_dir /\ BotUnchanged

\* The "Score This Debate" button
ReadyCallback ==
    /\ conv = "AWAITING_READY"
    /\ user_data' = setitem(setitem(user_data, "prompts",
                                    get_scoring_prompts(user_data["debate_id"])),
                            "prompt_index", 0)
    /\ conv' = "SCORING"
    /\ response' = Reply("ready_callback", "prompt")
    /\ UNCHANGED annotations_dir /\ BotUnchanged

\* Taps so far that did not score a new (dimension, side).
StaleTaps ==
    user_data["prompt_index"]
    - Sum([k \in 1..Len(Dimension) |->
             Cardinality(DOMAIN get(user_data["session"].scores, Dimension[k], <<>>))])

\* A tap on a score button: of the prompt sent last, or of an earlier prompt
\* whose message is still in the chat.
ScoreCallback ==
    /\ conv = "SCORING"
    /\ \E p \in 1..(user_data["prompt_index"] + 1), value \in ScoreValues :
         /\ p = user_data["prompt_index"] + 1 \/ StaleTaps < MaxStaleTaps
         /\ LET data == user_data["prompts"][p]
                r == record_score(user_data["session"], data.debate_id,
                                  data.dimension, data.side, value)
                idx == user_data["prompt_index"] + 1
            IN  IF r = <<>>
                THEN /\ response' = [handler |-> "score_callback", raised |-> ValueError]
                     /\ UNCHANGED <<user_data, conv>>
                ELSE /\ user_data' = setitem(setitem(user_data, "session", r[1]),
                                             "prompt_index", idx)
                     /\ conv' = IF idx < Len(user_data["prompts"]) THEN "SCORING"
                                ELSE "WINNER"
                     /\ response' = Reply("score_callback",
                                          IF idx < Len(user_data["prompts"])
                                          THEN "prompt" ELSE "Who won this debate?")
    /\ UNCHANGED annotations_dir /\ BotUnchanged

WinnerCallback ==
    /\ conv = "WINNER"
    /\ \E side \in {"AFF", "NEG"} :
         LET r == record_winner(user_data["session"], user_data["debate_id"], side)
         IN  IF r = <<>>
             THEN /\ response' = [handler |-> "winner_callback", raised |-> ValueError]
                  /\ UNCHANGED <<user_data, conv>>
             ELSE /\ user_data' = setitem(user_data, "session", r[1])
                  /\ conv' = "JUSTIFICATION"
                  /\ response' = Reply("winner_callback", "Brief justification?")
    /\ UNCHANGED annotations_dir /\ BotUnchanged

\* _save_and_confirm after handler has left the session as given.
save_and_confirm(session, handler) ==
    LET a == annotation_dict(session, user_data["debate_id"])
    IN  IF a = <<>>
        THEN /\ response' = [handler |-> handler, raised |-> ValueError]
             /\ user_data' = setitem(user_data, "session", session)
             /\ UNCHANGED <<annotations_dir, conv>>
        ELSE /\ annotations_dir' =
                    write_text(annotations_dir,
                               annotation_filename(user_data["debate_id"],
                                                   session.annotator_id), a[1])
             /\ user_data' = setitem(user_data, "session", session)
             /\ conv' = "DONE"
             /\ response' = Reply(handler, "annotated!")

\* A text message in JUSTIFICATION
TextJustification ==
    /\ conv = "JUSTIFICATION"
    /\ LET r == record_justification(user_data["session"], user_data["debate_id"],
                                     <<"Better clash">>)
       IN  IF r = <<>>
           THEN /\ response' = [handler |-> "text_justification", raised |-> ValueError]
                /\ UNCHANGED <<user_data, conv, annotations_dir>>
           ELSE save_and_confirm(r[1], "text_justification")
    /\ BotUnchanged

\* The "Skip" button
SkipJustification ==
    /\ conv = "JUSTIFICATION"
    /\ save_and_confirm(user_data["session"], "skip_justification")
    /\ BotUnchanged

\* The "Next Debate" button
NextDebate ==
    /\ conv = "DONE"
    /\ LET r == send_next_debate(user_data, user_data["session"], "next_debate")
       IN  user_data' = r.user_data /\ conv' = r.conv /\ response' = r.response
    /\ UNCHANGED annotations_dir /\ BotUnchanged

\* The "Done for Now" button
DoneCallback ==
    /\ conv = "DONE"
    /\ conv' = "END"
    /\ response' = Reply("done_callback", "See you next time!")
    /\ UNCHANGED <<user_data, annotations_dir>> /\ BotUnchanged

\* /status, handled outside the conversation and so in every state of it
StatusCommand ==
    /\ \E allowed \in BOOLEAN :
         IF ~allowed
         THEN response' = Reply("status_command", "") /\ UNCHANGED user_data
         ELSE LET session == _get_session(user_data)
              IN  /\ user_data' = setitem(user_data, "session", session)
                  /\ response' =
                        [handler |-> "status_command",
                         total |-> Cardinality(DOMAIN files),
                         done |-> Cardinality(glob_annotator(session.annotator_id))]
    /\ UNCHANGED <<conv, annotations_dir>> /\ BotUnchanged

\* /name [NewName]
NameCommand ==
    /\ \E new_name \in {<<>>, <<"A">>} :
         IF new_name # <<>>
         THEN /\ user_data' = setitem(user_data, "annotator_name", new_name)
              /\ response' = Reply("name_command", "Annotator name changed")
         ELSE /\ response' = Reply("name_command", "Your annotator name")
              /\ UNCHANGED user_data
    /\ UNCHANGED <<conv, annotations_dir>> /\ BotUnchanged

\* /cancel, the fallback of the conversation
Cancel ==
    /\ conv # "END"
    /\ conv' = "END"
    /\ response' = Reply("cancel", "Annotation cancelled.")
    /\ UNCHANGED <<user_data, annotations_dir>> /\ BotUnchanged

\* The debates directory of the bot: one generated debate.
BotDebatesDir ==
    (<<"d1", ".json">> :>
        [metadata |-> [CorpusMeta([type |-> None, target_side |-> None])
                          EXCEPT !.debate_id = <<"d1">>],
         turns |-> PlanTurns])

InitBot ==
    /\ files = BotDebatesDir
    /\ pc = "idle" /\ batch = NoBatch /\ GenLocalsIdle /\ written = <<>>
    /\ ModelsIdle /\ PromptsIdle /\ VoiceIdle /\ ServiceIdle
NextBot ==
    \/ StartDebate \/ SetName \/ ReadyCallback \/ ScoreCallback \/ WinnerCallback
    \/ TextJustification \/ SkipJustification \/ NextDebate \/ DoneCallback
    \/ StatusCommand \/ NameCommand \/ Cancel
SpecBot == InitBot /\ [][NextBot]_vars

\* Both sides of all five dimensions are scored.
AllScored(scores) ==
    \A k \in 1..Len(Dimension) :
        /\ Dimension[k] \in DOMAIN scores
        /\ DOMAIN scores[Dimension[k]] = {"AFF", "NEG"}

\* C27: whenever the conversation passes from SCORING to WINNER, and whenever
\* an annotation is saved, the session holds a score for each of the five
\* dimensions for both AFF and NEG, whatever score buttons were tapped on the
\* way, buttons of earlier prompts included.
C27_AllScoresAtWinner ==
    [][/\ (conv = "SCORING" /\ conv' = "WINNER") => AllScored(user_data'["session"].scores)
       /\ annotations_dir' # annotations_dir => AllScored(user_data'["session"].scores)]_vars

\* C28: every annotation file the bot has written is accepted by
\* Annotation.model_validate_json, as load_annotations requires.
C28_SavedAnnotationLoads ==
    \A name \in DOMAIN annotations_dir :
        Annotation_validate_json(annotations_dir[name]).status = "accepted"

\* C29: /status leaves the judging session as it was, so that the next
\* score, winner or save step of a debate in progress is accepted.
C29_StatusKeepsSession ==
    [][(response'.handler = "status_command" /\ "session" \in DOMAIN user_data
        /\ conv \in {"SCORING", "WINNER", "JUSTIFICATION"}) =>
          /\ user_data'["session"] = user_data["session"]
          /\ user_data'["session"].current_debate_id = user_data'["debate_id"]]_vars

=============================================================================
